---- MODULE Spec2Model ----
(***************************************************************************)
(* hibitrack: the calendar page, the achievement page and the routine      *)
(* check page, modelled over the rows of the signed-in user.               *)
(*                                                                         *)
(* Calendar dates ('yyyy-MM-dd' strings) are day numbers: day 0 is         *)
(* 2024-05-31 (a Friday), day 1 is 2024-06-01, day 8 is 2024-06-08.        *)
(* A JavaScript Date is an instant, counted in hours since                 *)
(* 2024-05-31T00:00Z.  Optional values (null / undefined) are sequences    *)
(* of length at most one.  A float quotient is the exact fraction          *)
(* [num, den].                                                             *)
(***************************************************************************)
EXTENDS Integers, Sequences, FiniteSets, TLC

\* ------------------------------------------------------------------ bounds
MaxRoutines == 2
MaxRecords == 2
MaxAvgRecords == 3
MaxStreakDays == 5
MaxStatRecords == 3
MaxDiaries == 3
MaxThresholdDays == 4
MaxInFlight == 2
MaxMonthsAway == 1

\* the schedules a routine definition is drawn from
DaySets == {{1, 2, 3, 4, 5}, {0, 1, 2, 3, 4, 5, 6}}
\* the dates a stored record is drawn from: 2024-06-03 (Mon), 2024-06-08 (Sat)
RecordDates == {3, 8}
\* the dates a user clicks or types
ClickDates == {3, 8}
\* the viewer's offset from UTC, in hours: New York (EST) and Tokyo
UtcOffsets == {-5, 9}
\* the actual values of the records the average is taken over
AvgValues == {0, 10, 20}
\* the routines a user of the streak scenarios has, all due every day, the
\* numbers of them completed on one of the latest days (rates 40, 85, 90,
\* 95, 100) and on each of the older days of the period (rates 0, 100)
StreakRoutineIds == 1..20
StreakCompleted == {8, 17, 18, 19, 20}
OlderCompleted == {0, 20}

\* the routines a user of the threshold scenarios has, all due every day, and
\* the numbers of them completed on one of the latest days: 34 of 44 is
\* 77.3 per cent, 35 of 44 is 79.5 per cent, 36 of 44 is 81.8 per cent
ThresholdRoutineIds == 1..44
ThresholdCompleted == {34, 35, 36}

\* the dates the records of the statistics scenarios are drawn from:
\* 2024-05-31 (before the last week's period, in the last month's) and
\* 2024-06-08 (in both periods)
StatDates == {0, 8}

\* the dates a stored diary entry is drawn from: 2024-06-08, 2024-06-09 and
\* 2024-07-01 (in the month after the one the calendar opens on)
DiaryDates == {8, 9, 31}

\* the day the browser's clock shows: 2024-06-09, a Sunday
Today == 9

None == << >>
Some(v) == << v >>

Max(a, b) == IF a >= b THEN a ELSE b

SeqsUpTo(S, n) == UNION {[1..k -> S] : k \in 0..n}

VARIABLES
  routines,           \* table routines: sequence of rows
  routine_records,    \* table routine_records: sequence of rows
  diaries,            \* table diaries: sequence of rows
  utcOffset,          \* the browser's time zone
  unavailable,        \* the tables whose requests fail: { data: null, error }
  pathname,           \* the page that is mounted
  loading,            \* the mounted page's loading flag
  notice,             \* the last handler ended with a failure alert
  todayStats,         \* HomePage
  currentMonth,       \* CalendarPage
  monthData,
  selectedDate,
  selectedDayDetail,
  detailLoading,
  period,             \* RoutineAchievementPage
  chartData,
  routineStats,
  overallStats,
  checkSelectedDate,  \* RoutineCheckPage
  checkRoutines,
  updating,
  pending,            \* the handlers that have started and await the store
  user,               \* useAuth: the signed-in user, if any
  authLoading,        \* useAuth: the session is still being read
  screen,             \* what AuthProvider has rendered
  settingsRoutines,   \* RoutineSettingsPage
  showForm,
  editingRoutine,
  formData,
  saving,             \* the mounted page's saving flag
  content,            \* DiaryNewPage
  diarySelectedDate,
  existingDiaries

storeVars == << routines, routine_records, diaries, utcOffset, unavailable >>
homeVars == << todayStats >>
calendarVars == << currentMonth, monthData, selectedDate, selectedDayDetail, detailLoading >>
achievementVars == << period, chartData, routineStats, overallStats >>
checkVars == << checkSelectedDate, checkRoutines >>
asyncVars == << updating, pending >>
sessionVars == << user, authLoading, screen >>
formVars == << settingsRoutines, showForm, editingRoutine, formData, content,
              diarySelectedDate, existingDiaries, saving >>
vars == << routines, routine_records, diaries, utcOffset, unavailable, pathname, loading,
           notice, todayStats,
           currentMonth, monthData, selectedDate, selectedDayDetail, detailLoading,
           period, chartData, routineStats, overallStats,
           checkSelectedDate, checkRoutines, updating, pending,
           user, authLoading, screen,
           settingsRoutines, showForm, editingRoutine, formData, saving,
           content, diarySelectedDate, existingDiaries >>

\* ------------------------------------------------------- dates and numbers
\* the months of 2024 around Today: first and last day number
Months == << [month |-> 3, first |-> -91, last |-> -61],
             [month |-> 4, first |-> -60, last |-> -31],
             [month |-> 5, first |-> -30, last |-> 0],
             [month |-> 6, first |-> 1, last |-> 30],
             [month |-> 7, first |-> 31, last |-> 61],
             [month |-> 8, first |-> 62, last |-> 92],
             [month |-> 9, first |-> 93, last |-> 122] >>

MonthIndex(d) == CHOOSE i \in 1..Len(Months) : Months[i].first <= d /\ d <= Months[i].last

\* new Date('yyyy-MM-dd'): midnight UTC of that date
DateFromString(s) == 24 * s

\* a Date at midnight local time of calendar date d
LocalMidnight(d) == 24 * d - utcOffset

\* new Date(): the browser's clock, noon local time of Today
Now == LocalMidnight(Today) + 12

\* format(date, 'yyyy-MM-dd'): the local calendar date of an instant
format(t) == (t + utcOffset) \div 24

\* a getDay that counts from Monday
getDayMondayFirst(t) == (format(t) + 4) % 7

\* Date.prototype.getDay: the weekday of the local calendar date, 0 = Sunday
getDay(t) == (format(t) + 5) % 7

\* format(date, 'M/d')
formatMd(t) ==
  LET d == format(t)
      m == Months[MonthIndex(d)]
  IN  << m.month, d - m.first + 1 >>

startOfMonth(t) == LocalMidnight(Months[MonthIndex(format(t))].first)
endOfMonth(t) == LocalMidnight(Months[MonthIndex(format(t))].last) + 23

\* subMonths(date, n): the same day of the month n months earlier, clamped
subMonths(t, n) ==
  LET d == format(t)
      i == MonthIndex(d)
      dom == d - Months[i].first
      p == Months[i - n]
      pd == IF p.first + dom <= p.last THEN p.first + dom ELSE p.last
  IN  t - 24 * (d - pd)

subWeeks(t, n) == t - 24 * 7 * n

\* startOfWeek(date): midnight of the Sunday on or before date
startOfWeek(t) == LocalMidnight(format(t) - getDay(t))

\* eachDayOfInterval: the local midnights from start's day to end's day
eachDayOfInterval(start, end) ==
  [i \in 1..(format(end) - format(start) + 1) |-> LocalMidnight(format(start) + i - 1)]

\* a rounding that truncates
MathFloor(num, den) == num \div den

\* Math.round of the fraction num/den (den > 0): halves round up
MathRound(num, den) == (2 * num + den) \div (2 * den)

\* ------------------------------------------------------------- the queries
Tables == {"diaries", "routines", "routine_records"}

\* a failed request that answers with the rows all the same
QueryDataStale(table, rows) == Some(rows)

\* const { data } = await supabase.from(table)...: the rows, or null when
\* the request fails
QueryData(table, rows) == IF table \in unavailable THEN None ELSE Some(rows)

\* data || [], data?.filter(...) || [], data?.length || 0
OrEmpty(data) == IF data = None THEN << >> ELSE data[1]

\* .contains('days_of_week', [dayOfWeek]) / days_of_week.includes(dayOfWeek)
RoutinesDueOn(dayOfWeek) ==
  OrEmpty(QueryData("routines", SelectSeq(routines, LAMBDA r : dayOfWeek \in r.days_of_week)))

\* a query without its range filters
RecordsBetweenUnbounded(startDate, endDate) == routine_records

\* .gte('record_date', startDate).lte('record_date', endDate)
RecordsBetween(startDate, endDate) ==
  OrEmpty(QueryData("routine_records",
                    SelectSeq(routine_records,
                              LAMBDA r : startDate <= r.record_date /\ r.record_date <= endDate)))

DiariesBetween(startDate, endDate) ==
  OrEmpty(QueryData("diaries",
                    SelectSeq(diaries,
                              LAMBDA d : startDate <= d.diary_date /\ d.diary_date <= endDate)))

\* --------------------------------------------------------------- the state
\* a row of routines: not quantifiable unless said otherwise
Routine(id, days) ==
  [id |-> id, name |-> << "a" >>, description |-> None, days_of_week |-> days,
   time_of_day |-> "anytime", is_quantifiable |-> FALSE, unit |-> None,
   target_value |-> None]

RoutineRows(n) ==
  {[i \in 1..n |-> Routine(i, ds[i])] : ds \in [1..n -> DaySets]}

RecordRows(ids, dates, values, maxLen) ==
  {[i \in 1..Len(rs) |-> [id |-> i, routine_id |-> rs[i].routine_id,
                           record_date |-> rs[i].record_date,
                           is_completed |-> rs[i].is_completed,
                           actual_value |-> rs[i].actual_value]] :
     rs \in SeqsUpTo([routine_id : ids, record_date : dates,
                      is_completed : BOOLEAN, actual_value : values], maxLen)}

DiaryRows(dates, maxLen) ==
  {[i \in 1..Len(ds) |-> [id |-> i, diary_date |-> ds[i], content |-> << "a" >>]] :
     ds \in SeqsUpTo(dates, maxLen)}

EmptyMonthData == [d \in {} |-> 0]

InitialOverallStats ==
  [totalRoutines |-> 0, averageCompletionRate |-> 0, bestStreak |-> 0, currentStreak |-> 0]

InitialTodayStats ==
  [totalRoutines |-> 0, completedRoutines |-> 0,
   completionRate |-> [num |-> 0, den |-> 1], diaryCount |-> 0]

\* const initialFormData
initialFormData ==
  [name |-> << >>, description |-> << >>, days_of_week |-> << 0, 1, 2, 3, 4, 5, 6 >>,
   time_of_day |-> "anytime", is_quantifiable |-> FALSE, unit |-> << >>,
   target_value |-> << >>]

\* the session of the specifications that start after sign-in
SignedIn ==
  /\ user = Some(1)
  /\ authLoading = FALSE
  /\ screen = [spinner |-> FALSE, header |-> TRUE, children |-> TRUE]

\* the state of the pages before their first fetch
PagesInit ==
  /\ updating = None
  /\ settingsRoutines = << >>
  /\ showForm = FALSE
  /\ editingRoutine = None
  /\ formData = initialFormData
  /\ saving = FALSE
  /\ content = << >>
  /\ diarySelectedDate = format(Now)
  /\ existingDiaries = << >>
  /\ loading = TRUE
  /\ notice = FALSE
  /\ todayStats = InitialTodayStats
  /\ currentMonth = Now
  /\ monthData = EmptyMonthData
  /\ selectedDate = None
  /\ selectedDayDetail = None
  /\ detailLoading = FALSE
  /\ period = "week"
  /\ chartData = << >>
  /\ routineStats = << >>
  /\ overallStats = InitialOverallStats
  /\ checkSelectedDate = format(Now)
  /\ checkRoutines = << >>

Paths == {"/", "/calendar", "/routine/achievement", "/routine/check"}

Init ==
  /\ \E n \in 0..MaxRoutines :
       /\ routines \in RoutineRows(n)
       /\ routine_records \in RecordRows(1..n, RecordDates, {None}, MaxRecords)
  /\ diaries = << >>
  /\ unavailable = {}
  /\ utcOffset \in UtcOffsets
  /\ pathname = "/"
  /\ PagesInit
  /\ SignedIn
  /\ pending = << >>

\* a user with one routine, due every day, and up to MaxAvgRecords records
\* of it on 2024-06-08, with and without an actual value
InitAvg ==
  /\ routines = << Routine(1, {0, 1, 2, 3, 4, 5, 6}) >>
  /\ routine_records \in RecordRows({1}, {8}, {None} \cup {Some(v) : v \in AvgValues},
                                    MaxAvgRecords)
  /\ diaries = << >>
  /\ unavailable = {}
  /\ utcOffset = 9
  /\ pathname = "/"
  /\ PagesInit
  /\ SignedIn
  /\ pending = << >>

\* a user with the routines StreakRoutineIds, all due every day, who has a
\* record of every routine on every day of the last week's period: on the
\* latest Len(tail) days tail[k] of them are completed, on each older day
\* older of them
StreakRecords(firstDay, tail, older) ==
  LET n == Cardinality(StreakRoutineIds)
      days == Today - firstDay + 1
      completedOn(d) == IF d > Today - Len(tail) THEN tail[d - (Today - Len(tail))] ELSE older
  IN  [k \in 1..(days * n) |->
         LET d == firstDay + (k - 1) \div n
             r == ((k - 1) % n) + 1
         IN  [id |-> k, routine_id |-> r, record_date |-> d,
              is_completed |-> r <= completedOn(d), actual_value |-> None]]

InitStreak ==
  /\ routines = [i \in StreakRoutineIds |-> Routine(i, {0, 1, 2, 3, 4, 5, 6})]
  /\ utcOffset = 9
  /\ \E tail \in SeqsUpTo(StreakCompleted, MaxStreakDays), older \in OlderCompleted :
       routine_records = StreakRecords(Today - 7 - ((Today - 7 + 5) % 7), tail, older)
  /\ diaries = << >>
  /\ unavailable = {}
  /\ pathname = "/routine/achievement"
  /\ PagesInit
  /\ SignedIn
  /\ pending = << >>

\* a user with three routines and up to MaxStatRecords records of them, in
\* and out of the periods of the achievement page
InitStats ==
  /\ routines = << Routine(1, {0, 1, 2, 3, 4, 5, 6}),
                   Routine(2, {1, 2, 3, 4, 5}),
                   Routine(3, {0, 1, 2, 3, 4, 5, 6}) >>
  /\ routine_records \in RecordRows(1..3, StatDates, {None}, MaxStatRecords)
  /\ diaries = << >>
  /\ unavailable = {}
  /\ utcOffset = 9
  /\ pathname = "/routine/achievement"
  /\ PagesInit
  /\ SignedIn
  /\ pending = << >>

\* a record of every routine on each of the latest Len(tail) days up to
\* Today, those of the routines 1..tail[j] completed on the j-th of them
ThresholdRecords(tail) ==
  LET n == Cardinality(ThresholdRoutineIds)
      firstDay == Today - Len(tail) + 1
  IN  [k \in 1..(Len(tail) * n) |->
         LET j == 1 + (k - 1) \div n
             r == ((k - 1) % n) + 1
         IN  [id |-> k, routine_id |-> r, record_date |-> firstDay + j - 1,
              is_completed |-> r <= tail[j], actual_value |-> None]]

\* a user with the routines ThresholdRoutineIds who has completed some of
\* them on each of the latest days
InitThreshold ==
  /\ routines = [i \in ThresholdRoutineIds |-> Routine(i, {0, 1, 2, 3, 4, 5, 6})]
  /\ \E tail \in SeqsUpTo(ThresholdCompleted, MaxThresholdDays) :
       routine_records = ThresholdRecords(tail)
  /\ diaries = << >>
  /\ unavailable = {}
  /\ utcOffset = 9
  /\ pathname = "/routine/achievement"
  /\ PagesInit
  /\ SignedIn
  /\ pending = << >>

\* a user without routines who has up to MaxDiaries diary entries
InitDiary ==
  /\ routines = << >>
  /\ routine_records = << >>
  /\ diaries \in DiaryRows(DiaryDates, MaxDiaries)
  /\ unavailable = {}
  /\ utcOffset \in UtcOffsets
  /\ pathname = "/"
  /\ PagesInit
  /\ SignedIn
  /\ pending = << >>

\* a user with at most one routine, one record and one diary entry, while
\* the requests to some of the tables fail
InitOutage ==
  /\ \E n \in 0..1 :
       /\ routines \in RoutineRows(n)
       /\ routine_records \in RecordRows(1..n, RecordDates, {None}, 1)
  /\ diaries \in DiaryRows({8}, 1)
  /\ unavailable \in SUBSET Tables
  /\ utcOffset = 9
  /\ pathname = "/"
  /\ PagesInit
  /\ SignedIn
  /\ pending = << >>

\* ---------------------------------------------------------------- HomePage
\* what fetchTodayStats sets
TodayStatsOf ==
  LET dayOfWeek == getDay(Now)
      todayString == format(Now)
      fetchedRoutines == RoutinesDueOn(dayOfWeek)
      routineIds == {fetchedRoutines[i].id : i \in 1..Len(fetchedRoutines)}
      records ==
        OrEmpty(QueryData("routine_records",
                          SelectSeq(routine_records,
                                    LAMBDA r : /\ r.record_date = todayString
                                               /\ r.is_completed
                                               /\ r.routine_id \in routineIds)))
      completedCount == IF routineIds # {} THEN Len(records) ELSE 0
      fetchedDiaries ==
        OrEmpty(QueryData("diaries", SelectSeq(diaries, LAMBDA d : d.diary_date = todayString)))
      totalRoutines == Len(fetchedRoutines)
  IN  [totalRoutines |-> totalRoutines,
       completedRoutines |-> completedCount,
       completionRate |-> IF totalRoutines > 0
                            THEN [num |-> completedCount * 100, den |-> totalRoutines]
                            ELSE [num |-> 0, den |-> 1],
       diaryCount |-> Len(fetchedDiaries)]

\* a statistics fetch that also stores a record of today
FetchTodayStatsRecording ==
  /\ pathname = "/"
  /\ todayStats' = TodayStatsOf
  /\ routine_records' =
       Append(routine_records,
              [id |-> Len(routine_records) + 1, routine_id |-> 1, record_date |-> format(Now),
               is_completed |-> FALSE, actual_value |-> None])
  /\ loading' = FALSE
  /\ notice' = FALSE
  /\ UNCHANGED << routines, diaries, utcOffset, unavailable, pathname, calendarVars,
                  achievementVars, checkVars,
                  asyncVars, sessionVars, formVars >>

FetchTodayStats ==
  /\ pathname = "/"
  /\ todayStats' = TodayStatsOf
  /\ loading' = FALSE
  /\ notice' = FALSE
  /\ UNCHANGED << storeVars, pathname, calendarVars, achievementVars, checkVars,
                  asyncVars, sessionVars, formVars >>

\* ------------------------------------------------------------ CalendarPage
\* the division without its guard: 0/0 and n/0 are not numbers of [0, 100]
monthCompletionRateUnguarded(completedCount, totalRoutines) ==
  [num |-> completedCount * 100, den |-> totalRoutines]

\* completedCount / totalRoutines * 100, or 0 when nothing is due
monthCompletionRate(completedCount, totalRoutines) ==
  IF totalRoutines > 0
    THEN [num |-> completedCount * 100, den |-> totalRoutines]
    ELSE [num |-> 0, den |-> 1]

\* a count that forgets the is_completed filter
monthCompletedCountAll(dayRecords) == Len(dayRecords)

\* the records of a day that count as completed
monthCompletedCount(dayRecords) == Len(SelectSeq(dayRecords, LAMBDA r : r.is_completed))

\* a mark that the date has a diary in place of the count
monthDiaryFlag(fetchedDiaries, dateString) ==
  IF \E i \in 1..Len(fetchedDiaries) : fetchedDiaries[i].diary_date = dateString
    THEN 1 ELSE 0

\* (diaries?.filter((d) => d.diary_date === dateString) || []).length
monthDiaryCount(fetchedDiaries, dateString) ==
  Len(SelectSeq(fetchedDiaries, LAMBDA d : d.diary_date = dateString))

\* the body of daysInMonth.forEach
DayDataOf(day, fetchedDiaries, fetchedRecords) ==
  LET dateString == format(day)
      dayOfWeek == getDay(day)
      dayRoutines == RoutinesDueOn(dayOfWeek)
      dayRecords == SelectSeq(fetchedRecords, LAMBDA r : r.record_date = dateString)
      completedCount == monthCompletedCount(dayRecords)
      totalRoutines == Len(dayRoutines)
  IN  [date |-> dateString,
       diaryCount |-> monthDiaryCount(fetchedDiaries, dateString),
       routineStats |-> [total |-> totalRoutines,
                         completed |-> completedCount,
                         completionRate |-> monthCompletionRate(completedCount, totalRoutines)]]

MonthDataOf(month) ==
  LET monthStart == startOfMonth(month)
      monthEnd == endOfMonth(month)
      startDate == format(monthStart)
      endDate == format(monthEnd)
      fetchedDiaries == DiariesBetween(startDate, endDate)
      fetchedRecords == RecordsBetween(startDate, endDate)
      daysInMonth == eachDayOfInterval(monthStart, monthEnd)
  IN  [d \in {format(daysInMonth[i]) : i \in 1..Len(daysInMonth)} |->
         DayDataOf(LocalMidnight(d), fetchedDiaries, fetchedRecords)]

FetchMonthData ==
  /\ pathname = "/calendar"
  /\ monthData' = MonthDataOf(currentMonth)
  /\ loading' = FALSE
  /\ notice' = FALSE
  /\ UNCHANGED << storeVars, pathname, currentMonth, selectedDate, selectedDayDetail,
                  detailLoading, achievementVars, checkVars, homeVars,
                  asyncVars, sessionVars, formVars >>

\* routines joined with routine_records!inner, filtered on record_date: the
\* due routines that have a record of that date, each with those records
DetailRoutinesQuery(dayOfWeek, date) ==
  LET recordsOf(r) ==
        SelectSeq(routine_records,
                  LAMBDA rec : rec.routine_id = r.id /\ rec.record_date = date)
      joined == SelectSeq(RoutinesDueOn(dayOfWeek), LAMBDA r : Len(recordsOf(r)) > 0)
  IN  [i \in 1..Len(joined) |->
         [id |-> joined[i].id, routine_records |-> recordsOf(joined[i])]]

\* routines?.map(...): the first joined record, or the defaults
DetailRoutineData(rows) ==
  [i \in 1..Len(rows) |->
     LET recs == rows[i].routine_records
     IN  [id |-> rows[i].id,
          is_completed |-> IF Len(recs) > 0 THEN recs[1].is_completed ELSE FALSE,
          actual_value |-> IF Len(recs) > 0 THEN recs[1].actual_value ELSE None]]

DayDetailOf(date) ==
  LET fetchedDiaries ==
        OrEmpty(QueryData("diaries", SelectSeq(diaries, LAMBDA d : d.diary_date = date)))
      selectedDay == DateFromString(date)
      dayOfWeek == getDay(selectedDay)
  IN  [date |-> date,
       diaries |-> fetchedDiaries,
       routines |-> DetailRoutineData(DetailRoutinesQuery(dayOfWeek, date))]

\* handleDateClick: setSelectedDate, then fetchDayDetail to its end
HandleDateClick(date) ==
  /\ pathname = "/calendar"
  /\ selectedDate' = Some(date)
  /\ selectedDayDetail' = Some(DayDetailOf(date))
  /\ detailLoading' = FALSE
  /\ notice' = FALSE
  /\ UNCHANGED << storeVars, pathname, loading, currentMonth, monthData,
                  achievementVars, checkVars, homeVars,
                  asyncVars, sessionVars, formVars >>

\* -------------------------------------------------------- RoutineCheckPage
\* the first record of the routine among the fetched ones, if any
FindRecord(recordData, routine) ==
  LET found == SelectSeq(recordData, LAMBDA r : r.routine_id = routine.id)
  IN  IF Len(found) > 0 THEN Some(found[1]) ELSE None

\* all routines of the model have the same time_of_day, so that
\* .order('time_of_day') keeps the order of the rows
RoutinesWithRecords(date) ==
  LET selectedDateObj == DateFromString(date)
      dayOfWeek == getDay(selectedDateObj)
      routineData == RoutinesDueOn(dayOfWeek)
      routineIds == {routineData[i].id : i \in 1..Len(routineData)}
      recordData ==
        OrEmpty(QueryData("routine_records",
                          SelectSeq(routine_records,
                                    LAMBDA r : r.record_date = date /\ r.routine_id \in routineIds)))
  IN  [i \in 1..Len(routineData) |->
         LET record == FindRecord(recordData, routineData[i])
         IN  [id |-> routineData[i].id,
              is_quantifiable |-> routineData[i].is_quantifiable,
              target_value |-> routineData[i].target_value,
              record |-> [id |-> IF record # None THEN Some(record[1].id) ELSE None,
                          is_completed |-> IF record # None THEN record[1].is_completed
                                                             ELSE FALSE,
                          actual_value |-> IF record # None THEN record[1].actual_value
                                                             ELSE None]]]

FetchRoutines ==
  /\ pathname = "/routine/check"
  /\ checkRoutines' = RoutinesWithRecords(checkSelectedDate)
  /\ loading' = FALSE
  /\ notice' = FALSE
  /\ UNCHANGED << storeVars, pathname, calendarVars, achievementVars, checkSelectedDate,
                  homeVars,
                  asyncVars, sessionVars, formVars >>

\* the table after the write of updateRoutineRecord: the update of the
\* record the closure knows (an actual value that is undefined is left out
\* of the request), or the insert of a new record
RecordsAfterWrite(routineId, recordId, date, isCompleted, actualValue) ==
  IF recordId # None
    THEN [k \in 1..Len(routine_records) |->
            IF routine_records[k].id = recordId[1]
              THEN [routine_records[k] EXCEPT
                      !.is_completed = isCompleted,
                      !.actual_value = IF actualValue # None THEN actualValue ELSE @]
              ELSE routine_records[k]]
    ELSE Append(routine_records,
                [id |-> Len(routine_records) + 1, routine_id |-> routineId,
                 record_date |-> date, is_completed |-> isCompleted,
                 actual_value |-> actualValue])

\* the row updateRoutineRecord writes for a listed routine: the update of
\* its record, or the insert of a new one
RecordsAfterUpdate(routine, isCompleted) ==
  IF routine.record.id # None
    THEN [k \in 1..Len(routine_records) |->
            IF routine_records[k].id = routine.record.id[1]
              THEN [routine_records[k] EXCEPT !.is_completed = isCompleted]
              ELSE routine_records[k]]
    ELSE Append(routine_records,
                [id |-> Len(routine_records) + 1, routine_id |-> routine.id,
                 record_date |-> checkSelectedDate, is_completed |-> isCompleted,
                 actual_value |-> None])

\* handleToggleComplete of the i-th listed routine: updateRoutineRecord to
\* its end, with the fetchRoutines after the write or the alert after an error
HandleToggleComplete(i) ==
  /\ pathname = "/routine/check"
  /\ i \in 1..Len(checkRoutines)
  /\ ~checkRoutines[i].is_quantifiable
  /\ UNCHANGED << routines, diaries, utcOffset, unavailable, pathname, calendarVars,
                  achievementVars, checkSelectedDate, homeVars,
                  asyncVars, sessionVars, formVars >>
  /\ IF "routine_records" \in unavailable
       THEN /\ notice' = TRUE
            /\ UNCHANGED << routine_records, checkRoutines, loading >>
       ELSE /\ routine_records' =
                 RecordsAfterUpdate(checkRoutines[i], ~checkRoutines[i].record.is_completed)
            /\ checkRoutines' = RoutinesWithRecords(checkSelectedDate)'
            /\ loading' = FALSE
            /\ notice' = FALSE

\* a rule that compares with the target also when the target is 0
quantifiableCompletedByTarget(target_value, value) ==
  IF target_value # None THEN value >= target_value[1] ELSE value > 0

\* routine.target_value ? value >= routine.target_value : value > 0
quantifiableCompleted(target_value, value) ==
  IF target_value # None /\ target_value[1] # 0 THEN value >= target_value[1] ELSE value > 0

\* handleQuantifiableUpdate of the i-th listed routine with the parsed
\* value: updateRoutineRecord to its end
HandleQuantifiableUpdate(i, value) ==
  /\ pathname = "/routine/check"
  /\ i \in 1..Len(checkRoutines)
  /\ checkRoutines[i].is_quantifiable
  /\ UNCHANGED << routines, diaries, utcOffset, unavailable, pathname, calendarVars,
                  achievementVars, checkSelectedDate, homeVars,
                  asyncVars, sessionVars, formVars >>
  /\ IF "routine_records" \in unavailable
       THEN /\ notice' = TRUE
            /\ UNCHANGED << routine_records, checkRoutines, loading >>
       ELSE /\ routine_records' =
                 RecordsAfterWrite(checkRoutines[i].id, checkRoutines[i].record.id,
                                   checkSelectedDate,
                                   quantifiableCompleted(checkRoutines[i].target_value, value),
                                   Some(value))
            /\ checkRoutines' = RoutinesWithRecords(checkSelectedDate)'
            /\ loading' = FALSE
            /\ notice' = FALSE

\* the date input: setSelectedDate, and the effect's fetchRoutines
CheckSetSelectedDate(date) ==
  /\ pathname = "/routine/check"
  /\ date # checkSelectedDate
  /\ checkSelectedDate' = date
  /\ checkRoutines' = RoutinesWithRecords(date)
  /\ loading' = FALSE
  /\ notice' = FALSE
  /\ UNCHANGED << storeVars, pathname, calendarVars, achievementVars, homeVars,
                  asyncVars, sessionVars, formVars >>

\* -------------------------------------------------- RoutineAchievementPage
\* the periods the selector is set to; '3months' is left to getPeriodDates
Periods == {"week", "month"}

getPeriodDates(p) ==
  LET today == Now
      startDate == CASE p = "week" -> startOfWeek(subWeeks(today, 1))
                     [] p = "month" -> subMonths(today, 1)
                     [] p = "3months" -> subMonths(today, 3)
                     [] OTHER -> subWeeks(today, 1)
  IN  [startDate |-> startDate, endDate |-> today]

\* completedForDay / totalForDay * 100, or 0 when nothing is due
dayCompletionRate(completedForDay, totalForDay) ==
  IF totalForDay > 0
    THEN [num |-> completedForDay * 100, den |-> totalForDay]
    ELSE [num |-> 0, den |-> 1]

\* records?.filter(r => r.record_date === dateStr && r.is_completed).length
dayCompletedCount(records, dateStr) ==
  Len(SelectSeq(records, LAMBDA r : r.record_date = dateStr /\ r.is_completed))

\* the body of the loop over days
ChartDataOf(day, records) ==
  LET dateStr == format(day)
      dayOfWeek == getDay(day)
      dayRoutines == RoutinesDueOn(dayOfWeek)
      totalForDay == Len(dayRoutines)
      completedForDay == dayCompletedCount(records, dateStr)
      completionRate == dayCompletionRate(completedForDay, totalForDay)
  IN  [date |-> formatMd(day),
       completionRate |-> MathRound(completionRate.num, completionRate.den),
       completed |-> completedForDay,
       total |-> totalForDay]

RECURSIVE SumActual(_)
SumActual(recs) ==
  IF recs = << >> THEN 0 ELSE recs[1].actual_value[1] + SumActual(Tail(recs))

\* the mean of the present actual values, to one decimal place (in tenths);
\* none when no value is present or the mean is falsy
averageValueOf(routineRecords) ==
  LET quantifiableRecords == SelectSeq(routineRecords, LAMBDA r : r.actual_value # None)
      sum == SumActual(quantifiableRecords)
      count == Len(quantifiableRecords)
      averageValue == IF count > 0 THEN Some([num |-> sum, den |-> count]) ELSE None
  IN  IF averageValue # None /\ averageValue[1].num # 0
        THEN Some(MathRound(averageValue[1].num * 10, averageValue[1].den))
        ELSE None

\* the body of the loop over routines
RoutineStatsOf(routine, records) ==
  LET routineRecords == SelectSeq(records, LAMBDA r : r.routine_id = routine.id)
      completedDays == Len(SelectSeq(routineRecords, LAMBDA r : r.is_completed))
      totalDays == Len(routineRecords)
      completionRate == IF totalDays > 0
                          THEN [num |-> completedDays * 100, den |-> totalDays]
                          ELSE [num |-> 0, den |-> 1]
  IN  [id |-> routine.id,
       totalDays |-> totalDays,
       completedDays |-> completedDays,
       completionRate |-> MathRound(completionRate.num, completionRate.den),
       averageValue |-> averageValueOf(routineRecords)]

\* a sort that puts an element before the earlier ones of the same rate
RECURSIVE SortByCompletionRateUnstable(_)
SortByCompletionRateUnstable(stats) ==
  IF stats = << >> THEN << >>
  ELSE LET front == SortByCompletionRateUnstable(SubSeq(stats, 1, Len(stats) - 1))
           x == stats[Len(stats)]
           k == Cardinality({i \in 1..Len(front) : front[i].completionRate > x.completionRate})
       IN  SubSeq(front, 1, k) \o << x >> \o SubSeq(front, k + 1, Len(front))

\* Array.prototype.sort with (a, b) => b.completionRate - a.completionRate:
\* descending and stable
RECURSIVE SortByCompletionRate(_)
SortByCompletionRate(stats) ==
  IF stats = << >> THEN << >>
  ELSE LET front == SortByCompletionRate(SubSeq(stats, 1, Len(stats) - 1))
           x == stats[Len(stats)]
           k == Cardinality({i \in 1..Len(front) : front[i].completionRate >= x.completionRate})
       IN  SubSeq(front, 1, k) \o << x >> \o SubSeq(front, k + 1, Len(front))

RECURSIVE SumRates(_)
SumRates(stats) ==
  IF stats = << >> THEN 0 ELSE stats[1].completionRate + SumRates(Tail(stats))

Reverse(seq) == [i \in 1..Len(seq) |-> seq[Len(seq) + 1 - i]]

\* a scan without the statement after it
StreakFlushDropped(bestStreak, tempStreak) == bestStreak

\* the statement after the scan: bestStreak = Math.max(bestStreak, tempStreak)
StreakFlush(bestStreak, tempStreak) == Max(bestStreak, tempStreak)

\* a break that keeps the run just ended instead of the longest one
StreakBreakLatest(bestStreak, tempStreak) == tempStreak

\* a day below the threshold: bestStreak = Math.max(bestStreak, tempStreak)
StreakBreak(bestStreak, tempStreak) == Max(bestStreak, tempStreak)

\* the scan of the reversed daily data, from index i (0-based in the source)
RECURSIVE StreakLoop(_, _, _, _, _)
StreakLoop(reversedDailyData, i, currentStreak, bestStreak, tempStreak) ==
  IF i >= Len(reversedDailyData)
    THEN [currentStreak |-> currentStreak,
          bestStreak |-> StreakFlush(bestStreak, tempStreak)]
    ELSE IF reversedDailyData[i + 1].completionRate >= 80
           THEN StreakLoop(reversedDailyData, i + 1,
                           IF i = 0 THEN tempStreak + 1 ELSE currentStreak,
                           bestStreak, tempStreak + 1)
           ELSE StreakLoop(reversedDailyData, i + 1, currentStreak,
                           StreakBreak(bestStreak, tempStreak), 0)

StreakOf(dailyData) == StreakLoop(Reverse(dailyData), 0, 0, 0, 0)

\* what fetchAchievementData sets for period p
AchievementOf(p) ==
  LET dates == getPeriodDates(p)
      startDateStr == format(dates.startDate)
      endDateStr == format(dates.endDate)
      fetched == QueryData("routines", routines)
      fetchedRoutines == OrEmpty(fetched)
      routineIds == {fetchedRoutines[i].id : i \in 1..Len(fetchedRoutines)}
      records == SelectSeq(RecordsBetween(startDateStr, endDateStr),
                           LAMBDA r : r.routine_id \in routineIds)
      days == eachDayOfInterval(dates.startDate, dates.endDate)
      dailyData == [i \in 1..Len(days) |-> ChartDataOf(days[i], records)]
      routineStatsData ==
        SortByCompletionRate([i \in 1..Len(fetchedRoutines) |->
                                RoutineStatsOf(fetchedRoutines[i], records)])
      avgCompletionRate ==
        IF Len(routineStatsData) > 0
          THEN MathRound(SumRates(routineStatsData), Len(routineStatsData))
          ELSE 0
      streak == StreakOf(dailyData)
  IN  IF fetched = None \/ Len(fetchedRoutines) = 0
        THEN [chartData |-> << >>, routineStats |-> << >>,
              overallStats |-> InitialOverallStats]
        ELSE [chartData |-> dailyData,
              routineStats |-> routineStatsData,
              overallStats |-> [totalRoutines |-> Len(fetchedRoutines),
                                averageCompletionRate |-> avgCompletionRate,
                                bestStreak |-> streak.bestStreak,
                                currentStreak |-> streak.currentStreak]]

\* a fetch that adds the daily series to the one already shown
FetchAchievementDataAppending ==
  /\ pathname = "/routine/achievement"
  /\ LET result == AchievementOf(period)
     IN  /\ chartData' = chartData \o result.chartData
         /\ routineStats' = result.routineStats
         /\ overallStats' = result.overallStats
  /\ loading' = FALSE
  /\ notice' = FALSE
  /\ UNCHANGED << storeVars, pathname, calendarVars, period, checkVars, homeVars,
                  asyncVars, sessionVars, formVars >>

FetchAchievementData ==
  /\ pathname = "/routine/achievement"
  /\ LET result == AchievementOf(period)
     IN  /\ chartData' = result.chartData
         /\ routineStats' = result.routineStats
         /\ overallStats' = result.overallStats
  /\ loading' = FALSE
  /\ notice' = FALSE
  /\ UNCHANGED << storeVars, pathname, calendarVars, period, checkVars, homeVars,
                  asyncVars, sessionVars, formVars >>

\* the period selector: setPeriod, and the effect's fetchAchievementData
SetPeriod(p) ==
  /\ pathname = "/routine/achievement"
  /\ p # period
  /\ period' = p
  /\ LET result == AchievementOf(p)
     IN  /\ chartData' = result.chartData
         /\ routineStats' = result.routineStats
         /\ overallStats' = result.overallStats
  /\ loading' = FALSE
  /\ notice' = FALSE
  /\ UNCHANGED << storeVars, pathname, calendarVars, checkVars, homeVars,
                  asyncVars, sessionVars, formVars >>

\* a page is mounted, with its initial state
PageMounted(path) ==
  /\ pathname' = path
  /\ loading' = TRUE
  /\ notice' = FALSE
  /\ todayStats' = InitialTodayStats
  /\ currentMonth' = Now
  /\ monthData' = EmptyMonthData
  /\ selectedDate' = None
  /\ selectedDayDetail' = None
  /\ detailLoading' = FALSE
  /\ period' = "week"
  /\ chartData' = << >>
  /\ routineStats' = << >>
  /\ overallStats' = InitialOverallStats
  /\ checkSelectedDate' = format(Now)
  /\ checkRoutines' = << >>

\* Header navItems: another page is mounted, with its initial state
Navigate(path) ==
  /\ path # pathname
  /\ PageMounted(path)
  /\ UNCHANGED << storeVars, asyncVars, sessionVars, formVars >>

Next ==
  \/ FetchTodayStats
  \/ FetchMonthData
  \/ \E date \in ClickDates : HandleDateClick(date)
  \/ FetchAchievementData
  \/ \E p \in Periods : SetPeriod(p)
  \/ FetchRoutines
  \/ \E date \in ClickDates : CheckSetSelectedDate(date)
  \/ \E path \in Paths : Navigate(path)

Spec == Init /\ [][Next]_vars

SpecAvg == InitAvg /\ [][Next]_vars

NextStreak == FetchAchievementData

SpecStreak == InitStreak /\ [][NextStreak]_vars

NextStats ==
  \/ FetchAchievementData
  \/ \E p \in Periods : SetPeriod(p)

SpecStats == InitStats /\ [][NextStats]_vars

SpecThreshold == InitThreshold /\ [][NextStats]_vars

SpecDiary == InitDiary /\ [][Next]_vars

NextOutage ==
  \/ Next
  \/ \E i \in 1..Len(checkRoutines) : HandleToggleComplete(i)

SpecOutage == InitOutage /\ [][NextOutage]_vars

\* ---------------------------------------------------- handlers in flight
\* a handler that has run up to its first await: the values its closure
\* holds
Call(op) ==
  [op |-> op, month |-> 0, date |-> 0, period |-> "week", routineId |-> 0,
   recordId |-> None, isCompleted |-> FALSE, actualValue |-> None, phase |-> "query"]

\* the fetch the effect of the mounted page starts
EffectCall ==
  CASE pathname = "/" -> Call("fetchTodayStats")
    [] pathname = "/calendar" -> [Call("fetchMonthData") EXCEPT !.month = currentMonth]
    [] pathname = "/routine/achievement" -> [Call("fetchAchievementData") EXCEPT !.period = period]
    [] pathname = "/routine/check" -> [Call("fetchRoutines") EXCEPT !.date = checkSelectedDate]

Remove(seq, k) == SubSeq(seq, 1, k - 1) \o SubSeq(seq, k + 1, Len(seq))

CanStart == user # None /\ Len(pending) < MaxInFlight

\* a month change that starts no fetch
NavigateMonthOnly(direction) ==
  /\ pathname = "/calendar"
  /\ CanStart
  /\ LET next == IF direction = "prev" THEN subMonths(currentMonth, 1)
                                        ELSE subMonths(currentMonth, -1)
     IN  /\ MonthIndex(format(next)) - MonthIndex(format(Now)) \in -MaxMonthsAway..MaxMonthsAway
         /\ currentMonth' = next
  /\ UNCHANGED << storeVars, pathname, loading, notice, monthData, selectedDate,
                  selectedDayDetail, detailLoading, achievementVars, checkVars, homeVars,
                  asyncVars, sessionVars, formVars >>

\* navigateMonth: setCurrentMonth, and the effect's fetchMonthData up to its
\* first await
NavigateMonth(direction) ==
  /\ pathname = "/calendar"
  /\ CanStart
  /\ LET next == IF direction = "prev" THEN subMonths(currentMonth, 1)
                                        ELSE subMonths(currentMonth, -1)
     IN  /\ MonthIndex(format(next)) - MonthIndex(format(Now)) \in -MaxMonthsAway..MaxMonthsAway
         /\ currentMonth' = next
         /\ pending' = Append(pending, [Call("fetchMonthData") EXCEPT !.month = next])
  /\ loading' = TRUE
  /\ UNCHANGED << storeVars, pathname, notice, monthData, selectedDate, selectedDayDetail,
                  detailLoading, achievementVars, checkVars, homeVars, updating,
                  sessionVars, formVars >>

\* the rest of fetchMonthData, once its queries have answered
CompleteFetchMonthData(k) ==
  /\ pending[k].op = "fetchMonthData"
  /\ monthData' = MonthDataOf(pending[k].month)
  /\ loading' = FALSE
  /\ pending' = Remove(pending, k)
  /\ notice' = FALSE
  /\ UNCHANGED << storeVars, pathname, currentMonth, selectedDate, selectedDayDetail,
                  detailLoading, achievementVars, checkVars, homeVars, updating,
                  sessionVars, formVars >>

\* handleDateClick: setSelectedDate, and fetchDayDetail up to its first await
StartHandleDateClick(date) ==
  /\ pathname = "/calendar"
  /\ CanStart
  /\ selectedDate' = Some(date)
  /\ detailLoading' = TRUE
  /\ pending' = Append(pending, [Call("fetchDayDetail") EXCEPT !.date = date])
  /\ UNCHANGED << storeVars, pathname, loading, notice, currentMonth, monthData,
                  selectedDayDetail, achievementVars, checkVars, homeVars, updating,
                  sessionVars, formVars >>

CompleteFetchDayDetail(k) ==
  /\ pending[k].op = "fetchDayDetail"
  /\ selectedDayDetail' = Some(DayDetailOf(pending[k].date))
  /\ detailLoading' = FALSE
  /\ pending' = Remove(pending, k)
  /\ notice' = FALSE
  /\ UNCHANGED << storeVars, pathname, loading, currentMonth, monthData,
                  selectedDate, achievementVars, checkVars, homeVars, updating,
                  sessionVars, formVars >>

\* the period selector: setPeriod, and the effect's fetchAchievementData up
\* to its first await
StartSetPeriod(p) ==
  /\ pathname = "/routine/achievement"
  /\ CanStart
  /\ p # period
  /\ period' = p
  /\ loading' = TRUE
  /\ pending' = Append(pending, [Call("fetchAchievementData") EXCEPT !.period = p])
  /\ UNCHANGED << storeVars, pathname, notice, calendarVars, chartData, routineStats,
                  overallStats, checkVars, homeVars, updating, sessionVars, formVars >>

CompleteFetchAchievementData(k) ==
  /\ pending[k].op = "fetchAchievementData"
  /\ LET result == AchievementOf(pending[k].period)
     IN  /\ chartData' = result.chartData
         /\ routineStats' = result.routineStats
         /\ overallStats' = result.overallStats
  /\ loading' = FALSE
  /\ pending' = Remove(pending, k)
  /\ notice' = FALSE
  /\ UNCHANGED << storeVars, pathname, calendarVars, period, checkVars, homeVars,
                  updating, sessionVars, formVars >>

CompleteFetchTodayStats(k) ==
  /\ pending[k].op = "fetchTodayStats"
  /\ todayStats' = TodayStatsOf
  /\ loading' = FALSE
  /\ pending' = Remove(pending, k)
  /\ notice' = FALSE
  /\ UNCHANGED << storeVars, pathname, calendarVars, achievementVars, checkVars,
                  updating, sessionVars, formVars >>

\* the date input: setSelectedDate, and the effect's fetchRoutines up to its
\* first await
StartSetSelectedDate(date) ==
  /\ pathname = "/routine/check"
  /\ CanStart
  /\ date # checkSelectedDate
  /\ checkSelectedDate' = date
  /\ loading' = TRUE
  /\ pending' = Append(pending, [Call("fetchRoutines") EXCEPT !.date = date])
  /\ UNCHANGED << storeVars, pathname, notice, calendarVars, achievementVars, checkRoutines,
                  homeVars, updating, sessionVars, formVars >>

CompleteFetchRoutines(k) ==
  /\ pending[k].op = "fetchRoutines"
  /\ checkRoutines' = RoutinesWithRecords(pending[k].date)
  /\ loading' = FALSE
  /\ pending' = Remove(pending, k)
  /\ notice' = FALSE
  /\ UNCHANGED << storeVars, pathname, calendarVars, achievementVars,
                  checkSelectedDate, homeVars, updating, sessionVars, formVars >>

\* the records stored or on their way to the store
MaxInserts == 3

\* updateRoutineRecord up to its first await: setUpdating, and the record id
\* of the routine as the rendered list has it
StartUpdateRoutineRecord(i, isCompleted, actualValue) ==
  /\ pathname = "/routine/check"
  /\ CanStart
  /\ ~loading
  /\ i \in 1..Len(checkRoutines)
  /\ updating # Some(checkRoutines[i].id)
  /\ checkRoutines[i].record.id = None =>
       Len(routine_records)
       + Cardinality({k \in 1..Len(pending) :
                        /\ pending[k].op = "updateRoutineRecord"
                        /\ pending[k].phase = "write"
                        /\ pending[k].recordId = None}) < MaxInserts
  /\ updating' = Some(checkRoutines[i].id)
  /\ pending' = Append(pending,
                       [Call("updateRoutineRecord") EXCEPT
                          !.date = checkSelectedDate,
                          !.routineId = checkRoutines[i].id,
                          !.recordId = checkRoutines[i].record.id,
                          !.isCompleted = isCompleted,
                          !.actualValue = actualValue,
                          !.phase = "write"])
  /\ UNCHANGED << storeVars, pathname, loading, notice, calendarVars, achievementVars,
                  checkVars, homeVars, sessionVars, formVars >>

\* the toggle button of a routine that is not quantifiable
StartToggleComplete(i) ==
  /\ i \in 1..Len(checkRoutines)
  /\ ~checkRoutines[i].is_quantifiable
  /\ StartUpdateRoutineRecord(i, ~checkRoutines[i].record.is_completed, None)

\* the update button of a quantifiable routine, with the parsed value
StartQuantifiableUpdate(i, value) ==
  /\ i \in 1..Len(checkRoutines)
  /\ checkRoutines[i].is_quantifiable
  /\ StartUpdateRoutineRecord(i, quantifiableCompleted(checkRoutines[i].target_value, value),
                              Some(value))

\* a write whose failure leaves the routine marked as updating
CompleteWriteStaysBusy(k) ==
  /\ pending[k].op = "updateRoutineRecord"
  /\ pending[k].phase = "write"
  /\ IF "routine_records" \in unavailable
       THEN /\ notice' = TRUE
            /\ pending' = Remove(pending, k)
            /\ UNCHANGED << routine_records, loading, updating >>
       ELSE /\ routine_records' =
                 RecordsAfterWrite(pending[k].routineId, pending[k].recordId, pending[k].date,
                                   pending[k].isCompleted, pending[k].actualValue)
            /\ loading' = TRUE
            /\ pending' = [pending EXCEPT ![k].phase = "refetch"]
            /\ UNCHANGED << notice, updating >>
  /\ UNCHANGED << routines, diaries, utcOffset, unavailable, pathname, calendarVars,
                  achievementVars, checkVars, homeVars, sessionVars, formVars >>

\* the write of updateRoutineRecord has answered: on an error the alert and
\* setUpdating(null), otherwise fetchRoutines up to its first await
CompleteWrite(k) ==
  /\ pending[k].op = "updateRoutineRecord"
  /\ pending[k].phase = "write"
  /\ IF "routine_records" \in unavailable
       THEN /\ notice' = TRUE
            /\ updating' = None
            /\ pending' = Remove(pending, k)
            /\ UNCHANGED << routine_records, loading >>
       ELSE /\ routine_records' =
                 RecordsAfterWrite(pending[k].routineId, pending[k].recordId, pending[k].date,
                                   pending[k].isCompleted, pending[k].actualValue)
            /\ loading' = TRUE
            /\ pending' = [pending EXCEPT ![k].phase = "refetch"]
            /\ UNCHANGED << notice, updating >>
  /\ UNCHANGED << routines, diaries, utcOffset, unavailable, pathname, calendarVars,
                  achievementVars, checkVars, homeVars, sessionVars, formVars >>

\* the fetchRoutines of updateRoutineRecord has answered, and the finally
CompleteRefetch(k) ==
  /\ pending[k].op = "updateRoutineRecord"
  /\ pending[k].phase = "refetch"
  /\ checkRoutines' = RoutinesWithRecords(pending[k].date)
  /\ loading' = FALSE
  /\ updating' = None
  /\ pending' = Remove(pending, k)
  /\ notice' = FALSE
  /\ UNCHANGED << storeVars, pathname, calendarVars, achievementVars,
                  checkSelectedDate, homeVars, sessionVars, formVars >>

\* a page of the application, just mounted by a signed-in user: the effect
\* has started the page's fetch
InitAsync ==
  /\ routines = << Routine(1, {0, 1, 2, 3, 4, 5, 6}),
                   [Routine(2, {0, 1, 2, 3, 4, 5, 6}) EXCEPT
                      !.is_quantifiable = TRUE, !.target_value = Some(5)] >>
  /\ routine_records = << >>
  /\ diaries = << >>
  /\ unavailable \in {{}, {"routines"}, {"routine_records"}}
  /\ utcOffset = 9
  /\ pathname \in Paths
  /\ PagesInit
  /\ SignedIn
  /\ pending = << EffectCall >>

NextAsync ==
  \/ \E direction \in {"prev", "next"} : NavigateMonth(direction)
  \/ \E date \in ClickDates : StartHandleDateClick(date)
  \/ \E p \in Periods : StartSetPeriod(p)
  \/ \E date \in {8} : StartSetSelectedDate(date)
  \/ \E i \in 1..Len(checkRoutines) : StartToggleComplete(i)
  \/ \E i \in 1..Len(checkRoutines), value \in {5} : StartQuantifiableUpdate(i, value)
  \/ \E k \in 1..Len(pending) : CompleteFetchTodayStats(k)
  \/ \E k \in 1..Len(pending) : CompleteFetchMonthData(k)
  \/ \E k \in 1..Len(pending) : CompleteFetchDayDetail(k)
  \/ \E k \in 1..Len(pending) : CompleteFetchAchievementData(k)
  \/ \E k \in 1..Len(pending) : CompleteFetchRoutines(k)
  \/ \E k \in 1..Len(pending) : CompleteWrite(k)
  \/ \E k \in 1..Len(pending) : CompleteRefetch(k)

SpecAsync == InitAsync /\ [][NextAsync]_vars

\* const isAuthPage = pathname === '/login' || pathname === '/register'
isAuthPage(path) == path \in {"/login", "/register"}

\* a provider without the guard of the signed-out user
AuthProviderUnguarded(isLoading, currentUser, path) ==
  IF isLoading
    THEN [spinner |-> TRUE, header |-> FALSE, children |-> FALSE]
    ELSE [spinner |-> FALSE, header |-> currentUser # None, children |-> TRUE]

\* what AuthProvider returns: the spinner, nothing, or the page with the
\* header of a signed-in user
AuthProvider(isLoading, currentUser, path) ==
  IF isLoading
    THEN [spinner |-> TRUE, header |-> FALSE, children |-> FALSE]
    ELSE IF currentUser = None /\ ~isAuthPage(path)
           THEN [spinner |-> FALSE, header |-> FALSE, children |-> FALSE]
           ELSE [spinner |-> FALSE, header |-> currentUser # None, children |-> TRUE]

\* useAuth has read the session: loading becomes false, with or without a
\* user
AuthLoaded(currentUser) ==
  /\ authLoading
  /\ authLoading' = FALSE
  /\ user' = currentUser
  /\ screen' = AuthProvider(FALSE, currentUser, pathname)
  /\ UNCHANGED << storeVars, pathname, loading, notice, calendarVars, achievementVars,
                  checkVars, homeVars, asyncVars, formVars >>

\* the effect of AuthProvider: router.push('/login') or router.push('/')
RedirectEffect ==
  /\ ~authLoading
  /\ \/ user = None /\ ~isAuthPage(pathname)
     \/ user # None /\ isAuthPage(pathname)
  /\ LET target == IF user = None THEN "/login" ELSE "/"
     IN  /\ PageMounted(target)
         /\ screen' = AuthProvider(authLoading, user, target)
  /\ UNCHANGED << storeVars, asyncVars, formVars, user, authLoading >>

\* the session of the auth pages: a user signs in
SignIn ==
  /\ ~authLoading
  /\ user = None
  /\ isAuthPage(pathname)
  /\ user' = Some(1)
  /\ screen' = AuthProvider(authLoading, Some(1), pathname)
  /\ UNCHANGED << storeVars, pathname, loading, notice, calendarVars, achievementVars,
                  checkVars, homeVars, asyncVars, formVars, authLoading >>

\* the session ends without the header's button
SessionEnded ==
  /\ ~authLoading
  /\ user # None
  /\ user' = None
  /\ screen' = AuthProvider(authLoading, None, pathname)
  /\ UNCHANGED << storeVars, pathname, loading, notice, calendarVars, achievementVars,
                  checkVars, homeVars, asyncVars, formVars, authLoading >>

\* Header.handleSignOut: await signOut(); router.push('/login')
HandleSignOut ==
  /\ screen.header
  /\ user' = None
  /\ PageMounted("/login")
  /\ screen' = AuthProvider(authLoading, None, "/login")
  /\ UNCHANGED << storeVars, asyncVars, formVars, authLoading >>

\* the application is opened at any of its paths, the session not yet read
InitAuth ==
  /\ routines = << >>
  /\ routine_records = << >>
  /\ diaries \in DiaryRows(DiaryDates, MaxDiaries)
  /\ unavailable = {}
  /\ utcOffset = 9
  /\ pathname \in Paths \cup {"/login", "/register"}
  /\ PagesInit
  /\ user = None
  /\ authLoading = TRUE
  /\ screen = AuthProvider(TRUE, None, pathname)
  /\ pending = << >>

NextAuth ==
  \/ \E currentUser \in {None, Some(1)} : AuthLoaded(currentUser)
  \/ RedirectEffect
  \/ SignIn
  \/ SessionEnded
  \/ HandleSignOut
  \/ \E path \in Paths : screen.header /\ Navigate(path)
  \/ screen.children /\ user # None /\ FetchTodayStats

SpecAuth == InitAuth /\ [][NextAuth]_vars

\* ------------------------------------------------------ RoutineSettingsPage
\* texts are sequences of characters
RECURSIVE trimStart(_)
trimStart(text) ==
  IF text # << >> /\ Head(text) = " " THEN trimStart(Tail(text)) ELSE text

RECURSIVE trimEnd(_)
trimEnd(text) ==
  IF text # << >> /\ text[Len(text)] = " " THEN trimEnd(SubSeq(text, 1, Len(text) - 1))
                                            ELSE text

\* a text written as typed
trimNothing(text) == text

\* String.prototype.trim
trim(text) == trimEnd(trimStart(text))

\* parseFloat of the value of a number input that holds a whole number
RECURSIVE parseFloat(_)
parseFloat(text) ==
  LET last == text[Len(text)]
      digit == CHOOSE d \in 0..9 :
                 << "0", "1", "2", "3", "4", "5", "6", "7", "8", "9" >>[d + 1] = last
  IN  IF Len(text) = 1 THEN digit
      ELSE 10 * parseFloat(SubSeq(text, 1, Len(text) - 1)) + digit

\* the digits of a whole number
RECURSIVE toString(_)
toString(n) ==
  LET digit == SubSeq(<< "0", "1", "2", "3", "4", "5", "6", "7", "8", "9" >>,
                      (n % 10) + 1, (n % 10) + 1)
  IN  IF n < 10 THEN digit ELSE toString(n \div 10) \o digit

\* [...].sort((a, b) => a - b)
RECURSIVE sortAscending(_)
sortAscending(list) ==
  IF list = << >> THEN << >>
  ELSE LET least == CHOOSE i \in 1..Len(list) : \A j \in 1..Len(list) : list[i] <= list[j]
       IN  << list[least] >> \o sortAscending(Remove(list, least))

\* the array the store returns for the days a row holds, written by this form
RECURSIVE Ascending(_)
Ascending(S) ==
  IF S = {} THEN << >>
  ELSE LET least == CHOOSE d \in S : \A e \in S : d <= e
       IN  << least >> \o Ascending(S \ {least})

\* a toggle that adds the day at the end
dayToggledAtEnd(days, dayIndex) ==
  IF \E i \in 1..Len(days) : days[i] = dayIndex THEN SelectSeq(days, LAMBDA d : d # dayIndex)
                              ELSE Append(days, dayIndex)

\* the days_of_week of handleDayToggle
dayToggled(days, dayIndex) ==
  IF \E i \in 1..Len(days) : days[i] = dayIndex THEN SelectSeq(days, LAMBDA d : d # dayIndex)
                              ELSE sortAscending(Append(days, dayIndex))

SettingsUnchanged ==
  UNCHANGED << routine_records, diaries, utcOffset, unavailable, pathname, calendarVars,
               achievementVars, checkVars, homeVars, updating, sessionVars, content,
               diarySelectedDate, existingDiaries >>

\* fetchRoutines of the settings page, to its end
SettingsFetchRoutines ==
  /\ pathname = "/routine/settings"
  /\ user # None
  /\ settingsRoutines' = IF "routines" \in unavailable THEN settingsRoutines
                                                        ELSE Reverse(routines)
  /\ loading' = FALSE
  /\ notice' = FALSE
  /\ UNCHANGED << routines, showForm, editingRoutine, formData, saving, pending >>
  /\ SettingsUnchanged

\* the buttons that open the form
OpenForm ==
  /\ pathname = "/routine/settings"
  /\ user # None
  /\ ~showForm
  /\ showForm' = TRUE
  /\ UNCHANGED << routines, settingsRoutines, editingRoutine, formData, saving, pending,
                  loading, notice >>
  /\ SettingsUnchanged

\* a change of the form's data
SetFormData(next) ==
  /\ pathname = "/routine/settings"
  /\ user # None
  /\ showForm
  /\ formData' = next
  /\ UNCHANGED << routines, settingsRoutines, showForm, editingRoutine, saving, pending,
                  loading, notice >>
  /\ SettingsUnchanged

HandleDayToggle(dayIndex) ==
  SetFormData([formData EXCEPT !.days_of_week = dayToggled(@, dayIndex)])

SelectAllDays == SetFormData([formData EXCEPT !.days_of_week = << 0, 1, 2, 3, 4, 5, 6 >>])

SelectWeekdays == SetFormData([formData EXCEPT !.days_of_week = << 1, 2, 3, 4, 5 >>])

ClearDays == SetFormData([formData EXCEPT !.days_of_week = << >>])

SetName(text) == SetFormData([formData EXCEPT !.name = text])

SetDescription(text) == SetFormData([formData EXCEPT !.description = text])

\* the checkbox: unchecking it empties unit and target_value
SetQuantifiable(checked) ==
  SetFormData([formData EXCEPT !.is_quantifiable = checked,
                               !.unit = IF checked THEN @ ELSE << >>,
                               !.target_value = IF checked THEN @ ELSE << >>])

\* the inputs that are rendered while the checkbox is checked
SetUnit(text) ==
  /\ formData.is_quantifiable
  /\ SetFormData([formData EXCEPT !.unit = text])

SetTargetValue(text) ==
  /\ formData.is_quantifiable
  /\ SetFormData([formData EXCEPT !.target_value = text])

\* the form opened on a row of the list
HandleEdit(i) ==
  /\ pathname = "/routine/settings"
  /\ user # None
  /\ ~showForm
  /\ i \in 1..Len(settingsRoutines)
  /\ editingRoutine' = Some(settingsRoutines[i].id)
  /\ formData' =
       LET routine == settingsRoutines[i]
       IN  [name |-> routine.name,
            description |-> OrEmpty(routine.description),
            days_of_week |-> Ascending(routine.days_of_week),
            time_of_day |-> routine.time_of_day,
            is_quantifiable |-> routine.is_quantifiable,
            unit |-> OrEmpty(routine.unit),
            target_value |-> IF routine.target_value = None
                               THEN << >> ELSE toString(routine.target_value[1])]
  /\ showForm' = TRUE
  /\ UNCHANGED << routines, settingsRoutines, saving, pending, loading, notice >>
  /\ SettingsUnchanged

HandleCloseForm ==
  /\ pathname = "/routine/settings"
  /\ user # None
  /\ showForm
  /\ showForm' = FALSE
  /\ editingRoutine' = None
  /\ formData' = initialFormData
  /\ UNCHANGED << routines, settingsRoutines, saving, pending, loading, notice >>
  /\ SettingsUnchanged

\* const routineData of handleSubmit; the store keeps days_of_week as the set
\* of the listed days
routineData(data) ==
  [name |-> trim(data.name),
   description |-> IF trim(data.description) = << >> THEN None
                                                      ELSE Some(trim(data.description)),
   days_of_week |-> {data.days_of_week[i] : i \in 1..Len(data.days_of_week)},
   time_of_day |-> data.time_of_day,
   is_quantifiable |-> data.is_quantifiable,
   unit |-> IF data.is_quantifiable /\ trim(data.unit) # << >> THEN Some(trim(data.unit))
                                                                ELSE None,
   target_value |-> IF data.is_quantifiable /\ data.target_value # << >>
                      THEN Some(parseFloat(data.target_value)) ELSE None]

WithId(id, data) ==
  [id |-> id, name |-> data.name, description |-> data.description,
   days_of_week |-> data.days_of_week, time_of_day |-> data.time_of_day,
   is_quantifiable |-> data.is_quantifiable, unit |-> data.unit,
   target_value |-> data.target_value]

\* the id the store gives a new row: one that no row has
NewId(rows) ==
  LET ids == {rows[i].id : i \in 1..Len(rows)}
  IN  CHOOSE id \in 1..(Len(rows) + 1) : id \notin ids /\ \A other \in 1..(id - 1) : other \in ids

\* the rows of routines a user of the form has
MaxFormRoutines == 1

\* handleSubmit up to its first await: setSaving(true), routineData, and the
\* update of the edited row or the insert
HandleSubmit ==
  /\ pathname = "/routine/settings"
  /\ user # None
  /\ showForm
  /\ ~saving
  /\ trim(formData.name) # << >>
  /\ formData.days_of_week # << >>
  /\ pending = << >>
  /\ editingRoutine = None => Len(routines) < MaxFormRoutines
  /\ saving' = TRUE
  /\ pending' = << [op |-> "handleSubmit", phase |-> "write", data |-> routineData(formData),
                    editingRoutine |-> editingRoutine] >>
  /\ UNCHANGED << routines, settingsRoutines, showForm, editingRoutine, formData, loading,
                  notice >>
  /\ SettingsUnchanged

\* a save that fails and closes the form all the same
CompleteSubmitClosing ==
  /\ pending # << >>
  /\ pending[1].op = "handleSubmit"
  /\ IF "routines" \in unavailable
       THEN /\ notice' = TRUE
            /\ UNCHANGED << routines, settingsRoutines, loading >>
       ELSE /\ routines' =
                 IF pending[1].editingRoutine # None
                   THEN [k \in 1..Len(routines) |->
                           IF routines[k].id = pending[1].editingRoutine[1]
                             THEN WithId(routines[k].id, pending[1].data)
                             ELSE routines[k]]
                   ELSE Append(routines, WithId(NewId(routines), pending[1].data))
            /\ settingsRoutines' = Reverse(routines')
            /\ loading' = FALSE
            /\ notice' = FALSE
  /\ showForm' = FALSE
  /\ editingRoutine' = None
  /\ formData' = initialFormData
  /\ saving' = FALSE
  /\ pending' = << >>
  /\ SettingsUnchanged

\* the rest of handleSubmit, once the store has answered: on an error the
\* alert, otherwise fetchRoutines and handleCloseForm; setSaving(false)
CompleteSubmit ==
  /\ pending # << >>
  /\ pending[1].op = "handleSubmit"
  /\ IF "routines" \in unavailable
       THEN /\ notice' = TRUE
            /\ UNCHANGED << routines, settingsRoutines, showForm, editingRoutine, formData,
                            loading >>
       ELSE /\ routines' =
                 IF pending[1].editingRoutine # None
                   THEN [k \in 1..Len(routines) |->
                           IF routines[k].id = pending[1].editingRoutine[1]
                             THEN WithId(routines[k].id, pending[1].data)
                             ELSE routines[k]]
                   ELSE Append(routines, WithId(NewId(routines), pending[1].data))
            /\ settingsRoutines' = Reverse(routines')
            /\ loading' = FALSE
            /\ notice' = FALSE
            /\ showForm' = FALSE
            /\ editingRoutine' = None
            /\ formData' = initialFormData
  /\ saving' = FALSE
  /\ pending' = << >>
  /\ SettingsUnchanged

\* handleDelete of a row of the list, confirmed, to its end
HandleDelete(i) ==
  /\ pathname = "/routine/settings"
  /\ user # None
  /\ ~showForm
  /\ i \in 1..Len(settingsRoutines)
  /\ IF "routines" \in unavailable
       THEN /\ notice' = TRUE
            /\ UNCHANGED << routines, settingsRoutines, loading >>
       ELSE /\ routines' = SelectSeq(routines, LAMBDA r : r.id # settingsRoutines[i].id)
            /\ settingsRoutines' = Reverse(routines')
            /\ loading' = FALSE
            /\ notice' = FALSE
  /\ UNCHANGED << showForm, editingRoutine, formData, saving, pending >>
  /\ SettingsUnchanged

\* the settings page of a user without routines, its form for a new routine
InitDays ==
  /\ routines = << >>
  /\ routine_records = << >>
  /\ diaries = << >>
  /\ unavailable = {}
  /\ utcOffset = 9
  /\ pathname = "/routine/settings"
  /\ PagesInit
  /\ SignedIn
  /\ pending = << >>

NextDays ==
  \/ OpenForm
  \/ \E dayIndex \in 0..6 : HandleDayToggle(dayIndex)
  \/ SelectAllDays
  \/ SelectWeekdays
  \/ ClearDays
  \/ HandleCloseForm

SpecDays == InitDays /\ [][NextDays]_vars

\* the settings page of a user without routines, while the requests to
\* routines succeed or fail
InitSettings ==
  /\ routines = << >>
  /\ routine_records = << >>
  /\ diaries = << >>
  /\ unavailable \in {{}, {"routines"}}
  /\ utcOffset = 9
  /\ pathname = "/routine/settings"
  /\ PagesInit
  /\ SignedIn
  /\ pending = << >>

NextSettings ==
  \/ SettingsFetchRoutines
  \/ OpenForm
  \/ \E text \in {<< " " >>, << " ", "a", " " >>} : SetName(text)
  \/ \E text \in {<< "b", " " >>} : SetDescription(text)
  \/ \E checked \in BOOLEAN : SetQuantifiable(checked)
  \/ \E text \in {<< " ", "k" >>} : SetUnit(text)
  \/ \E text \in {<< "1", "2" >>} : SetTargetValue(text)
  \/ \E i \in 1..Len(settingsRoutines) : HandleEdit(i)
  \/ \E i \in 1..Len(settingsRoutines) : HandleDelete(i)
  \/ HandleCloseForm
  \/ HandleSubmit
  \/ CompleteSubmit

SpecSettings == InitSettings /\ [][NextSettings]_vars

\* ------------------------------------------------- quantifiable routines
\* the numbers typed into the input of a quantifiable routine
QuantValues == {-1, 0, 3, 5, 7}

\* the check page of a user with one quantifiable routine, due every day,
\* and no records
InitQuant ==
  /\ \E target \in {None, Some(0), Some(5)} :
       routines = << [Routine(1, {0, 1, 2, 3, 4, 5, 6}) EXCEPT
                        !.is_quantifiable = TRUE, !.target_value = target] >>
  /\ routine_records = << >>
  /\ diaries = << >>
  /\ unavailable \in {{}, {"routine_records"}}
  /\ utcOffset = 9
  /\ pathname = "/routine/check"
  /\ PagesInit
  /\ SignedIn
  /\ pending = << >>

NextQuant ==
  \/ FetchRoutines
  \/ \E date \in ClickDates : CheckSetSelectedDate(date)
  \/ \E i \in 1..Len(checkRoutines), value \in QuantValues : HandleQuantifiableUpdate(i, value)

SpecQuant == InitQuant /\ [][NextQuant]_vars

\* ------------------------------------------------------------ NewDiaryPage
DiaryUnchanged ==
  UNCHANGED << routines, routine_records, utcOffset, unavailable, pathname, calendarVars,
               achievementVars, checkVars, homeVars, updating, settingsRoutines, showForm,
               editingRoutine, formData >>

\* the rows of the selected date, newest first; data || []
ExistingDiariesOf(rows, date) ==
  Reverse(OrEmpty(QueryData("diaries", SelectSeq(rows, LAMBDA d : d.diary_date = date))))

\* fetchExistingDiaries, to its end
FetchExistingDiaries ==
  /\ pathname = "/diary/new"
  /\ user # None
  /\ existingDiaries' = ExistingDiariesOf(diaries, diarySelectedDate)
  /\ loading' = FALSE
  /\ notice' = FALSE
  /\ UNCHANGED << diaries, content, diarySelectedDate, saving, pending, sessionVars >>
  /\ DiaryUnchanged

\* the text area
SetContent(text) ==
  /\ pathname = "/diary/new"
  /\ user # None
  /\ content' = text
  /\ UNCHANGED << diaries, diarySelectedDate, existingDiaries, saving, pending, loading,
                  notice, sessionVars >>
  /\ DiaryUnchanged

\* the date input: setSelectedDate, and the effect's fetchExistingDiaries
DiarySetSelectedDate(date) ==
  /\ pathname = "/diary/new"
  /\ user # None
  /\ date # diarySelectedDate
  /\ diarySelectedDate' = date
  /\ existingDiaries' = ExistingDiariesOf(diaries, date)
  /\ loading' = FALSE
  /\ notice' = FALSE
  /\ UNCHANGED << diaries, content, saving, pending, sessionVars >>
  /\ DiaryUnchanged

\* a submit that does not look at the content
DiaryHandleSubmitUnchecked ==
  /\ pathname = "/diary/new"
  /\ pending = << >>
  /\ user # None
  /\ Len(diaries) < MaxDiaries
  /\ saving' = TRUE
  /\ pending' = << [op |-> "handleSubmit", phase |-> "write", content |-> trim(content),
                    diary_date |-> diarySelectedDate] >>
  /\ UNCHANGED << diaries, content, diarySelectedDate, existingDiaries, loading, notice,
                  sessionVars >>
  /\ DiaryUnchanged

\* handleSubmit of the diary form up to its first await: nothing without a
\* user or with blank content, otherwise setSaving(true) and the insert
DiaryHandleSubmit ==
  /\ pathname = "/diary/new"
  /\ pending = << >>
  /\ IF user = None \/ trim(content) = << >>
       THEN UNCHANGED << saving, pending >>
       ELSE /\ Len(diaries) < MaxDiaries
            /\ saving' = TRUE
            /\ pending' = << [op |-> "handleSubmit", phase |-> "write",
                              content |-> trim(content),
                              diary_date |-> diarySelectedDate] >>
  /\ UNCHANGED << diaries, content, diarySelectedDate, existingDiaries, loading, notice,
                  sessionVars >>
  /\ DiaryUnchanged

\* the rest of handleSubmit, once the store has answered: on an error the
\* alert, otherwise setContent(''), fetchExistingDiaries and the message;
\* setSaving(false)
DiaryCompleteSubmit ==
  /\ pathname = "/diary/new"
  /\ pending # << >>
  /\ pending[1].op = "handleSubmit"
  /\ IF "diaries" \in unavailable
       THEN /\ notice' = TRUE
            /\ UNCHANGED << diaries, content, existingDiaries, loading >>
       ELSE /\ diaries' = Append(diaries, [id |-> Len(diaries) + 1,
                                           diary_date |-> pending[1].diary_date,
                                           content |-> pending[1].content])
            /\ content' = << >>
            /\ existingDiaries' = ExistingDiariesOf(diaries', diarySelectedDate)
            /\ loading' = FALSE
            /\ notice' = FALSE
  /\ saving' = FALSE
  /\ pending' = << >>
  /\ UNCHANGED << diarySelectedDate, sessionVars >>
  /\ DiaryUnchanged

\* the diary page of a user without diaries, while the requests to diaries
\* succeed or fail
InitDiaryForm ==
  /\ routines = << >>
  /\ routine_records = << >>
  /\ diaries = << >>
  /\ unavailable \in {{}, {"diaries"}}
  /\ utcOffset = 9
  /\ pathname = "/diary/new"
  /\ PagesInit
  /\ SignedIn
  /\ pending = << >>

NextDiaryForm ==
  \/ FetchExistingDiaries
  \/ \E text \in {<< " " >>, << " ", "a", " " >>, << "b" >>} : SetContent(text)
  \/ \E date \in {8, format(Now)} : DiarySetSelectedDate(date)
  \/ DiaryHandleSubmit
  \/ DiaryCompleteSubmit
  \/ SessionEnded

SpecDiaryForm == InitDiaryForm /\ [][NextDiaryForm]_vars

\* =================================================================== claims
\* calendar knowledge the properties are stated with: 2024-06-02 is a Sunday
WeekdayOfDate(d) == (d - 2) % 7

\* below, date 8 is Saturday 2024-06-08 and date 3 is Monday 2024-06-03

\* the day number of a chart entry, from its 'M/d' label
ChartDay(entry) ==
  LET m == CHOOSE k \in 1..Len(Months) : Months[k].month = entry.date[1]
  IN  Months[m].first + entry.date[2] - 1

\* the stored routines due on date d, and the stored completed records of d
DueRoutineIds(d) == {i \in 1..Len(routines) : WeekdayOfDate(d) \in routines[i].days_of_week}
CompletedRecordIds(d) ==
  {k \in 1..Len(routine_records) :
     routine_records[k].record_date = d /\ routine_records[k].is_completed}
RecordIdsOf(routineId, d) ==
  {k \in 1..Len(routine_records) :
     routine_records[k].routine_id = routineId /\ routine_records[k].record_date = d}

CalendarLoaded == pathname = "/calendar" /\ ~loading
AchievementLoaded == pathname = "/routine/achievement" /\ ~loading
CheckLoaded == pathname = "/routine/check" /\ ~loading

\* C1: every day aggregate of the month aggregation and of the achievement
\* daily series has a completionRate between 0 and 100 inclusive
C1_RateBetween0And100 ==
  /\ \A d \in DOMAIN monthData :
       LET rate == monthData[d].routineStats.completionRate
       IN  rate.den > 0 /\ 0 <= rate.num /\ rate.num <= 100 * rate.den
  /\ \A i \in 1..Len(chartData) :
       0 <= chartData[i].completionRate /\ chartData[i].completionRate <= 100

\* the number of consecutive days, counted back from the most recent day of
\* the series, whose rate is at least 80
TailRun(series) ==
  CHOOSE k \in 0..Len(series) :
    /\ \A j \in (Len(series) - k + 1)..Len(series) : series[j].completionRate >= 80
    /\ k < Len(series) => series[Len(series) - k].completionRate < 80

\* the length of the longest run of consecutive days with rate at least 80
HasRun(series, k) ==
  \E first \in 1..(Len(series) - k + 1) :
    \A j \in first..(first + k - 1) : series[j].completionRate >= 80
LongestRun(series) ==
  CHOOSE k \in 0..Len(series) :
    HasRun(series, k) /\ (k < Len(series) => ~HasRun(series, k + 1))

RatesOf(series) == [i \in 1..Len(series) |-> series[i].completionRate]

\* C2: currentStreak is the number of consecutive days, counted back from the
\* most recent day of the daily series, whose completion rate is at least 80
\* (0 when the most recent day is below 80)
C2_CurrentStreakIsTailRun == overallStats.currentStreak = TailRun(chartData)

\* C3: bestStreak is the length of the longest run of consecutive days with
\* completion rate at least 80 anywhere in the daily series; the rates
\* 90, 85, 40, 95, 100 after days of rate 0 give 2
C3_BestStreakIsLongestRun ==
  /\ overallStats.bestStreak = LongestRun(chartData)
  /\ (AchievementLoaded /\ RatesOf(chartData) = << 0, 0, 0, 90, 85, 40, 95, 100 >>)
       => overallStats.bestStreak = 2

\* a run that reaches the oldest day of the series ties with a later run
C3_Witness ==
  /\ AchievementLoaded
  /\ RatesOf(chartData) = << 100, 100, 100, 40, 95, 100, 100, 40 >>
  /\ overallStats.bestStreak = 3

\* C4: bestStreak >= currentStreak, and both are within 0 .. the number of
\* days of the daily series
C4_StreakBounds ==
  /\ overallStats.bestStreak >= overallStats.currentStreak
  /\ overallStats.currentStreak \in 0..Len(chartData)
  /\ overallStats.bestStreak \in 0..Len(chartData)

\* the most recent day meets the threshold and is the whole current run
C4_Witness ==
  /\ AchievementLoaded
  /\ Len(chartData) > 0
  /\ chartData[Len(chartData)].completionRate >= 80
  /\ overallStats.currentStreak >= 1
  /\ overallStats.bestStreak > overallStats.currentStreak

\* C5: a date on which no routine is due has completionRate exactly 0, a
\* number, also when completed records exist for that date
C5_ZeroRateWhenNothingDue ==
  /\ \A d \in DOMAIN monthData :
       LET stats == monthData[d].routineStats
       IN  stats.total = 0 => stats.completionRate.den > 0 /\ stats.completionRate.num = 0
  /\ \A i \in 1..Len(chartData) :
       chartData[i].total = 0 => chartData[i].completionRate = 0

\* a Saturday with a completed record and only weekday routines
C5_Witness ==
  /\ CalendarLoaded
  /\ Len(routines) > 0
  /\ monthData[8].routineStats.total = 0
  /\ monthData[8].routineStats.completed > 0
  /\ monthData[8].routineStats.completionRate.num = 0

\* what a detail view shows of a due routine: listed, and with the defaults
\* when it has no record of the date
ListedWithDefaults(listed, routineId, d, completedOf(_), valueOf(_)) ==
  \E j \in 1..Len(listed) :
    /\ listed[j].id = routineId
    /\ RecordIdsOf(routineId, d) = {} =>
         completedOf(listed[j]) = FALSE /\ valueOf(listed[j]) = None

\* C6: the day detail of a date lists every routine due on that date, and a
\* due routine without a record of that date has isCompleted = false and no
\* actual value
C6_DueRoutinesListed ==
  /\ selectedDayDetail # None =>
       \A i \in DueRoutineIds(selectedDayDetail[1].date) :
         ListedWithDefaults(selectedDayDetail[1].routines, routines[i].id,
                            selectedDayDetail[1].date,
                            LAMBDA x : x.is_completed, LAMBDA x : x.actual_value)
  /\ CheckLoaded =>
       \A i \in DueRoutineIds(checkSelectedDate) :
         ListedWithDefaults(checkRoutines, routines[i].id, checkSelectedDate,
                            LAMBDA x : x.record.is_completed,
                            LAMBDA x : x.record.actual_value)

\* the first and last date of the achievement period
PeriodFirstDay == format(getPeriodDates(period).startDate)
PeriodLastDay == format(getPeriodDates(period).endDate)

\* the in-range records of a routine that have an actual value
ValuedRecordIds(routineId) ==
  {k \in 1..Len(routine_records) :
     /\ routine_records[k].routine_id = routineId
     /\ PeriodFirstDay <= routine_records[k].record_date
     /\ routine_records[k].record_date <= PeriodLastDay
     /\ routine_records[k].actual_value # None}

RECURSIVE SumOfValues(_)
SumOfValues(ids) ==
  IF ids = {} THEN 0
  ELSE LET k == CHOOSE x \in ids : TRUE
       IN  routine_records[k].actual_value[1] + SumOfValues(ids \ {k})

\* t tenths is the mean sum/count rounded to one decimal place
IsRoundedMean(t, sum, count) ==
  2 * count * t - count <= 20 * sum /\ 20 * sum < 2 * count * t + count

\* C7: averageActualValue is the mean of the present actual values of the
\* routine's in-range records, to one decimal place, and undefined exactly
\* when no in-range record of the routine has an actual value
C7_AverageOfPresentValues ==
  AchievementLoaded =>
    \A i \in 1..Len(routineStats) :
      LET ids == ValuedRecordIds(routineStats[i].id)
      IN  /\ routineStats[i].averageValue = None <=> ids = {}
          /\ ids # {} /\ routineStats[i].averageValue # None =>
               IsRoundedMean(routineStats[i].averageValue[1], SumOfValues(ids),
                             Cardinality(ids))

\* the stored records that are the first of their (routine, date) pair
FirstRecordIds ==
  {k \in 1..Len(routine_records) :
     \A j \in 1..(k - 1) :
       ~(/\ routine_records[j].routine_id = routine_records[k].routine_id
         /\ routine_records[j].record_date = routine_records[k].record_date)}

\* C8: with several records of one (routineId, recordDate) pair only the
\* first is used: the per-day completed count and the per-routine totalDays
\* and completedDays are those of the first records alone
C8_FirstRecordOnly ==
  /\ \A d \in DOMAIN monthData :
       monthData[d].routineStats.completed = Cardinality(CompletedRecordIds(d) \cap FirstRecordIds)
  /\ \A i \in 1..Len(chartData) :
       chartData[i].completed =
         Cardinality(CompletedRecordIds(ChartDay(chartData[i])) \cap FirstRecordIds)
  /\ AchievementLoaded =>
       \A i \in 1..Len(routineStats) :
         LET ids == {k \in FirstRecordIds :
                       /\ routine_records[k].routine_id = routineStats[i].id
                       /\ PeriodFirstDay <= routine_records[k].record_date
                       /\ routine_records[k].record_date <= PeriodLastDay}
         IN  /\ routineStats[i].totalDays = Cardinality(ids)
             /\ routineStats[i].completedDays =
                  Cardinality({k \in ids : routine_records[k].is_completed})

\* C9: total of a date is the number of routine definitions whose daysOfWeek
\* contains the weekday of the date (0 = Sunday), whatever records exist
C9_TotalIsDueCount ==
  /\ \A d \in DOMAIN monthData :
       monthData[d].routineStats.total = Cardinality(DueRoutineIds(d))
  /\ \A i \in 1..Len(chartData) :
       chartData[i].total = Cardinality(DueRoutineIds(ChartDay(chartData[i])))

\* weekday-only routines with a record on a 8: nothing due on the
\* Saturday, all of them due on the Monday
C9_Witness ==
  /\ CalendarLoaded
  /\ Len(routines) = 2
  /\ \A i \in 1..Len(routines) : routines[i].days_of_week = {1, 2, 3, 4, 5}
  /\ RecordIdsOf(1, 8) # {}
  /\ monthData[8].routineStats.total = 0
  /\ monthData[3].routineStats.total = 2

\* C10: completed of a date is the number of fetched records of that date
\* with isCompleted = true, due or not
C10_CompletedCountsAllRecords ==
  /\ \A d \in DOMAIN monthData :
       monthData[d].routineStats.completed = Cardinality(CompletedRecordIds(d))
  /\ \A i \in 1..Len(chartData) :
       chartData[i].completed = Cardinality(CompletedRecordIds(ChartDay(chartData[i])))

\* a Saturday with one routine due and two completed records, one of them
\* of a routine that is not due
C10_Witness ==
  /\ AchievementLoaded
  /\ \E i \in 1..Len(chartData) :
       /\ ChartDay(chartData[i]) = 8
       /\ chartData[i].total = 1
       /\ chartData[i].completed = 2
       /\ \E k \in CompletedRecordIds(8) :
            routine_records[k].routine_id \notin
              {routines[r].id : r \in DueRoutineIds(8)}

\* the records of a routine whose date lies in the achievement period
InRangeRecordIds(routineId) ==
  {k \in 1..Len(routine_records) :
     /\ routine_records[k].routine_id = routineId
     /\ PeriodFirstDay <= routine_records[k].record_date
     /\ routine_records[k].record_date <= PeriodLastDay}

CompletedInRangeRecordIds(routineId) ==
  {k \in InRangeRecordIds(routineId) : routine_records[k].is_completed}

\* C11: for each routine totalDays is the number of its records in the date
\* range, not of its scheduled days, completedDays the number of those with
\* isCompleted, and so completedDays <= totalDays
C11_TotalDaysCountsRecords ==
  AchievementLoaded =>
    \A i \in 1..Len(routineStats) :
      /\ routineStats[i].totalDays = Cardinality(InRangeRecordIds(routineStats[i].id))
      /\ routineStats[i].completedDays =
           Cardinality(CompletedInRangeRecordIds(routineStats[i].id))
      /\ routineStats[i].completedDays <= routineStats[i].totalDays

\* a routine due on all eight days of the week period with one record in
\* the period and two before it
C11_Witness ==
  /\ AchievementLoaded
  /\ period = "week"
  /\ Cardinality({k \in 1..Len(routine_records) : routine_records[k].routine_id = 1}) = 3
  /\ \E i \in 1..Len(routineStats) :
       /\ routineStats[i].id = 1
       /\ routineStats[i].totalDays = 1
       /\ routineStats[i].completedDays = 1

\* r is completed/total*100 rounded to the nearest integer
IsRoundedPercent(r, completed, total) ==
  2 * total * r - total <= 200 * completed /\ 200 * completed < 2 * total * r + total

\* C12: a routine's completionRate is completedDays/totalDays*100 rounded to
\* the nearest integer, 0 without records in range, always in 0..100; 2
\* completed of 3 records give 67
C12_RoutineRateRounded ==
  AchievementLoaded =>
    \A i \in 1..Len(routineStats) :
      LET total == Cardinality(InRangeRecordIds(routineStats[i].id))
          completed == Cardinality(CompletedInRangeRecordIds(routineStats[i].id))
          rate == routineStats[i].completionRate
      IN  /\ total = 0 => rate = 0
          /\ total > 0 => IsRoundedPercent(rate, completed, total)
          /\ 0 <= rate /\ rate <= 100
          /\ (total = 3 /\ completed = 2) => rate = 67

C12_Witness ==
  /\ AchievementLoaded
  /\ \E i \in 1..Len(routineStats) :
       /\ Cardinality(InRangeRecordIds(routineStats[i].id)) = 3
       /\ Cardinality(CompletedInRangeRecordIds(routineStats[i].id)) = 2
       /\ routineStats[i].completionRate = 67

\* the position of a routine definition in the fetched rows
FetchIndex(routineId) == CHOOSE k \in 1..Len(routines) : routines[k].id = routineId

\* C13: the routine statistics list holds every routine once, ordered by
\* completionRate descending; routines of equal completionRate keep the
\* order in which the definitions were fetched
C13_SortedDescendingStable ==
  (AchievementLoaded /\ Len(routines) > 0) =>
    /\ Len(routineStats) = Len(routines)
    /\ {routineStats[i].id : i \in 1..Len(routineStats)} =
         {routines[k].id : k \in 1..Len(routines)}
    /\ \A i, j \in 1..Len(routineStats) :
         i < j =>
           /\ routineStats[i].completionRate >= routineStats[j].completionRate
           /\ routineStats[i].completionRate = routineStats[j].completionRate =>
                FetchIndex(routineStats[i].id) < FetchIndex(routineStats[j].id)

\* the second routine leads, the first and the third, each with a record
\* in range, tie behind it
C13_Witness ==
  /\ AchievementLoaded
  /\ Len(routineStats) = 3
  /\ routineStats[1].id = 2
  /\ routineStats[2].id = 1
  /\ routineStats[3].id = 3
  /\ routineStats[1].completionRate > routineStats[2].completionRate
  /\ routineStats[2].completionRate = routineStats[3].completionRate
  /\ routineStats[2].totalDays = 1
  /\ routineStats[3].totalDays = 1

\* the input of an aggregation that a table contributes nothing to: it has
\* no rows, or its query answers null
NoInput(table, rows) == table \in unavailable \/ rows = << >>

NoInputs ==
  /\ NoInput("routines", routines)
  /\ NoInput("routine_records", routine_records)
  /\ NoInput("diaries", diaries)

\* the dates of the month the calendar shows
DatesOfCurrentMonth ==
  LET m == Months[MonthIndex(format(currentMonth))]
  IN  m.first..m.last

\* C14: without routine definitions, records and diaries, each of them
\* absent or its query answering null, the month aggregation still yields an
\* aggregate for every date, with diaryCount 0, total 0, completed 0 and
\* completionRate 0, and the achievement statistics are empty with all
\* overall figures 0
C14_EmptyInputsGiveZeros ==
  /\ (CalendarLoaded /\ NoInputs) =>
       /\ DOMAIN monthData = DatesOfCurrentMonth
       /\ \A d \in DOMAIN monthData :
            /\ monthData[d].diaryCount = 0
            /\ monthData[d].routineStats.total = 0
            /\ monthData[d].routineStats.completed = 0
            /\ monthData[d].routineStats.completionRate.den > 0
            /\ monthData[d].routineStats.completionRate.num = 0
  /\ (AchievementLoaded /\ NoInputs) =>
       /\ chartData = << >>
       /\ routineStats = << >>
       /\ overallStats = [totalRoutines |-> 0, averageCompletionRate |-> 0,
                          bestStreak |-> 0, currentStreak |-> 0]

\* rows of all three tables are stored and all three queries answer null
C14_Witness ==
  /\ CalendarLoaded
  /\ unavailable = Tables
  /\ routines # << >> /\ routine_records # << >> /\ diaries # << >>
  /\ monthData[8].diaryCount = 0
  /\ monthData[8].routineStats.total = 0

\* the stored diary entries of date d
DiaryIdsOf(d) == {k \in 1..Len(diaries) : diaries[k].diary_date = d}

\* C15: for each date d of the month, diaryCount is the number of diary
\* entries whose diaryDate is d: several entries of one date are each
\* counted, entries of other dates are not
C15_DiaryCountPerDate ==
  CalendarLoaded =>
    \A d \in DOMAIN monthData : monthData[d].diaryCount = Cardinality(DiaryIdsOf(d))

\* two entries on 2024-06-08, none on 2024-06-09, one in July
C15_Witness ==
  /\ CalendarLoaded
  /\ Cardinality(DiaryIdsOf(8)) = 2
  /\ Cardinality(DiaryIdsOf(31)) = 1
  /\ monthData[8].diaryCount = 2
  /\ monthData[9].diaryCount = 0

\* a run of the month aggregation, the day-detail fetch, the achievement
\* aggregation or the home-page statistics
AggregationRun ==
  \/ FetchTodayStats
  \/ FetchMonthData
  \/ \E date \in ClickDates : HandleDateClick(date)
  \/ FetchAchievementData
  \/ \E p \in Periods : SetPeriod(p)

\* C16: a run of the month aggregation, the day-detail fetch, the
\* achievement aggregation or the home-page statistics inserts, updates and
\* deletes nothing: the stored diaries, routines and routine records are the
\* same after it as before
C16_AggregationsWriteNothing ==
  [][AggregationRun => UNCHANGED << routines, routine_records, diaries >>]_vars

\* the home-page statistics over a store that the check page has written
\* to: a record inserted and completed on the day of the browser's clock
C16_Witness ==
  /\ pathname = "/"
  /\ ~loading
  /\ \E k \in 1..Len(routine_records) :
       routine_records[k].record_date = Today /\ routine_records[k].is_completed
  /\ todayStats.completedRoutines = 1

\* C17: over the same stored rows and the same date range, an aggregation
\* that runs again, after whatever other aggregations, yields the day
\* aggregates, routine statistics and streak result the page already shows
C17_SameInputsSameOutputs ==
  [][/\ (FetchMonthData /\ ~loading) => monthData' = monthData
     /\ (FetchAchievementData /\ ~loading) =>
          /\ chartData' = chartData
          /\ routineStats' = routineStats
          /\ overallStats' = overallStats
     /\ (FetchTodayStats /\ ~loading) => todayStats' = todayStats]_vars

\* the last week's statistics of a routine with a completed record are
\* shown, so that a second run has something to reproduce
C17_Witness ==
  /\ AchievementLoaded
  /\ period = "week"
  /\ Len(routineStats) = 1
  /\ \E i \in 1..Len(chartData) : chartData[i].completed > 0
  /\ overallStats.bestStreak > 0

\* the exact rate completed/total*100 of a day, 0 when nothing is due, is at
\* least 80
ExactRateAtLeast80(entry) == entry.total > 0 /\ entry.completed * 100 >= 80 * entry.total

HasExactRun(series, k) ==
  \E first \in 1..(Len(series) - k + 1) :
    \A j \in first..(first + k - 1) : ExactRateAtLeast80(series[j])
LongestExactRun(series) ==
  CHOOSE k \in 0..Len(series) :
    HasExactRun(series, k) /\ (k < Len(series) => ~HasExactRun(series, k + 1))

\* C18: a day counts toward currentStreak and bestStreak exactly when its
\* rate completed/total*100 (0 when total is 0) is at least 80: bestStreak is
\* the longest run of such days, and currentStreak is above 0 exactly when
\* the most recent day is such a day
C18_ThresholdOnExactRate ==
  (AchievementLoaded /\ chartData # << >>) =>
    /\ overallStats.bestStreak = LongestExactRun(chartData)
    /\ overallStats.currentStreak > 0 <=> ExactRateAtLeast80(chartData[Len(chartData)])

IdsOf(listed) == {listed[j].id : j \in 1..Len(listed)}

\* C19: for a selected date d the day detail and the check page take the
\* routines due on the weekday of calendar date d, the weekday the month
\* aggregation uses for d, in every time zone: the day detail lists the
\* routines due on d that have a record of d, the check page the routines
\* due on d
C19_DetailUsesCalendarWeekday ==
  /\ selectedDayDetail # None =>
       IdsOf(selectedDayDetail[1].routines) =
         {routines[i].id : i \in {k \in DueRoutineIds(selectedDayDetail[1].date) :
                                    RecordIdsOf(routines[k].id, selectedDayDetail[1].date) # {}}}
  /\ CheckLoaded =>
       IdsOf(checkRoutines) = {routines[i].id : i \in DueRoutineIds(checkSelectedDate)}

HomeLoaded == pathname = "/" /\ ~loading

\* C20: every failed store operation is shown to the user as a failure
\* notice: once the handlers of a page have run while a table they query or
\* write fails, the page shows the notice rather than empty or stale data
C20_FailuresAreNoticed ==
  /\ (HomeLoaded /\ unavailable \cap {"routines", "diaries"} # {}) => notice
  /\ (CalendarLoaded /\ unavailable \cap {"routines", "diaries"} # {}) => notice
  /\ (AchievementLoaded /\ "routines" \in unavailable) => notice
  /\ (CheckLoaded /\ "routines" \in unavailable) => notice

\* the call a handler has just started: the last one in flight
Started(op) ==
  /\ pending' # << >>
  /\ pending' = Append(pending, pending'[Len(pending')])
  /\ pending'[Len(pending')].op = op
  /\ pending'[Len(pending')].phase = "query"

\* C21: while the user is signed in, every change of the calendar's
\* currentMonth starts a fetchMonthData for the new month, and every change
\* of the achievement page's period starts a fetchAchievementData for the
\* new period; the fetch that answers aggregates for the value it was
\* started with
C21_ChangeStartsFetch ==
  [][/\ (user # None /\ currentMonth' # currentMonth) =>
          /\ Started("fetchMonthData")
          /\ pending'[Len(pending')].month = currentMonth'
          /\ loading'
     /\ (user # None /\ period' # period) =>
          /\ Started("fetchAchievementData")
          /\ pending'[Len(pending')].period = period'
          /\ loading'
     /\ \A k \in 1..Len(pending) :
          /\ (pending[k].op = "fetchMonthData" /\ pending' = Remove(pending, k)) =>
               monthData' = MonthDataOf(pending[k].month)
          /\ (pending[k].op = "fetchAchievementData" /\ pending' = Remove(pending, k)) =>
               chartData' = AchievementOf(pending[k].period).chartData]_vars

C21_MonthChangedFetchStarted ==
  /\ pathname = "/calendar"
  /\ format(currentMonth) > format(Now)
  /\ \E k \in 1..Len(pending) :
       pending[k].op = "fetchMonthData" /\ pending[k].month = currentMonth

\* C22: on the check page, under every interleaving of toggle and
\* quantifiable-update actions with the store's responses, the store holds
\* at most one record per routine and date: a second action on a routine
\* updates the record the first one inserted
C22_OneRecordPerRoutineAndDate ==
  pathname = "/routine/check" =>
    \A j, k \in 1..Len(routine_records) :
      (/\ routine_records[j].routine_id = routine_records[k].routine_id
       /\ routine_records[j].record_date = routine_records[k].record_date) => j = k

\* C23: on the calendar page, whenever no day-detail fetch is in flight and
\* a detail is shown, the detail is the one of the selected date, in
\* whatever order the responses of overlapping fetches arrive
C23_DetailOfSelectedDate ==
  (/\ pathname = "/calendar"
   /\ ~\E k \in 1..Len(pending) : pending[k].op = "fetchDayDetail"
   /\ selectedDate # None
   /\ selectedDayDetail # None) =>
    selectedDayDetail[1].date = selectedDate[1]

InFlight(op) == \E k \in 1..Len(pending) : pending[k].op = op

C24_AuthGuard ==
  /\ [](/\ (user = None /\ ~isAuthPage(pathname)) => ~screen.children
        /\ authLoading => screen = [spinner |-> TRUE, header |-> FALSE, children |-> FALSE]
        /\ screen.header => (user # None /\ ~authLoading)
        /\ (~authLoading /\ user = None /\ ~isAuthPage(pathname)) => ENABLED RedirectEffect
        /\ (~authLoading /\ user # None /\ isAuthPage(pathname)) => ENABLED RedirectEffect)
  /\ [][/\ (~authLoading /\ user = None /\ ~isAuthPage(pathname) /\ pathname' # pathname) =>
            pathname' = "/login"
        /\ (user # None /\ RedirectEffect) => (isAuthPage(pathname) /\ pathname' = "/")]_vars

\* a signed-out user whose session has been read is on the home path
C24_SignedOutOnHome ==
  /\ ~authLoading
  /\ user = None
  /\ pathname = "/"
  /\ screen = [spinner |-> FALSE, header |-> FALSE, children |-> FALSE]

\* C25: in the form for a new routine, after any sequence of day toggles,
\* select-all, weekdays-only and clear-all, days_of_week is a strictly
\* ascending list of days 0..6 without duplicates, and toggling a day twice
\* gives the list back
C25_DaysAscending ==
  (pathname = "/routine/settings" /\ editingRoutine = None) =>
    LET days == formData.days_of_week
    IN  /\ \A i \in 1..Len(days) : days[i] \in 0..6
        /\ \A i \in 1..(Len(days) - 1) : days[i] < days[i + 1]
        /\ \A dayIndex \in 0..6 : dayToggled(dayToggled(days, dayIndex), dayIndex) = days

\* a list the toggles have built
C25_DaysToggledIn ==
  /\ showForm
  /\ editingRoutine = None
  /\ formData.days_of_week = << 0, 3, 5 >>

\* C26: when the save of a routine fails, the form stays open with the
\* entered data, editingRoutine is unchanged and the list is not refreshed;
\* when it succeeds, the list is fetched again and the form is closed and
\* reset; in both cases saving is false again
C26_SaveOutcome ==
  /\ [](pending = << >> => ~saving)
  /\ [][(pathname = "/routine/settings" /\ saving /\ ~saving') =>
          IF "routines" \in unavailable
            THEN /\ UNCHANGED << showForm, editingRoutine, formData, settingsRoutines,
                                 routines >>
                 /\ notice'
            ELSE /\ settingsRoutines' = Reverse(routines')
                 /\ ~showForm'
                 /\ editingRoutine' = None
                 /\ formData' = initialFormData
                 /\ ~notice']_vars

\* a save of the form has failed and left the form as it was typed
C26_FailedSaveKeepsForm ==
  /\ "routines" \in unavailable
  /\ notice
  /\ ~saving
  /\ showForm
  /\ formData.name = << " ", "a", " " >>

IsTrimmed(text) == text = << >> \/ (Head(text) # " " /\ text[Len(text)] # " ")

\* C28: every row of routines written by the form with is_quantifiable
\* false has unit null and target_value null, whatever was typed before the
\* checkbox was cleared, and the name and the description of every written
\* row are trimmed
C28_WrittenRoutineNormalised ==
  pathname = "/routine/settings" =>
    \A k \in 1..Len(routines) :
      /\ ~routines[k].is_quantifiable =>
           (routines[k].unit = None /\ routines[k].target_value = None)
      /\ IsTrimmed(routines[k].name)
      /\ routines[k].name # << >>
      /\ routines[k].description # None =>
           (IsTrimmed(routines[k].description[1]) /\ routines[k].description[1] # << >>)
      /\ routines[k].unit # None =>
           (IsTrimmed(routines[k].unit[1]) /\ routines[k].unit[1] # << >>)

\* a row the form has written, not quantifiable, its description typed with
\* a trailing blank
C28_RowWritten ==
  /\ pathname = "/routine/settings"
  /\ routines # << >>
  /\ ~routines[1].is_quantifiable
  /\ routines[1].name = << "a" >>
  /\ routines[1].description = Some(<< "b" >>)

\* C29: a quantifiable update with value v marks the record completed
\* exactly when v >= target_value for a target that is not zero, and exactly
\* when v > 0 for a target that is absent or zero; in both cases v is stored
\* as the record's actual_value
C29_CompletedByTarget ==
  [][\A i \in 1..Len(checkRoutines), v \in QuantValues :
       (HandleQuantifiableUpdate(i, v) /\ "routine_records" \notin unavailable) =>
         LET target == checkRoutines[i].target_value
             expected == IF target # None /\ target[1] # 0 THEN v >= target[1] ELSE v > 0
             written == {k \in 1..Len(routine_records') :
                           /\ routine_records'[k].routine_id = checkRoutines[i].id
                           /\ routine_records'[k].record_date = checkSelectedDate}
         IN  /\ written # {}
             /\ \A k \in written :
                  /\ routine_records'[k].actual_value = Some(v)
                  /\ routine_records'[k].is_completed = expected
             /\ checkRoutines'[i].record.actual_value = Some(v)
             /\ checkRoutines'[i].record.is_completed = expected]_vars

\* a value of 0 was recorded for a routine whose target is 0
C29_ZeroForZeroTarget ==
  /\ routines # << >>
  /\ routines[1].target_value = Some(0)
  /\ \E k \in 1..Len(routine_records) :
       routine_records[k].actual_value = Some(0) /\ ~routine_records[k].is_completed

\* C30: the diary page never inserts an entry with empty or blank content:
\* a submit with blank content or without a signed-in user changes nothing,
\* the stored content is the trimmed text, and the text area is cleared only
\* after a successful insert
C30_NoBlankDiary ==
  /\ [](pathname = "/diary/new" =>
          /\ \A k \in 1..Len(diaries) :
               diaries[k].content # << >> /\ IsTrimmed(diaries[k].content)
          /\ (user = None \/ trim(content) = << >>) => ~ENABLED (DiaryHandleSubmit /\ vars' # vars))
  /\ [][pathname = "/diary/new" =>
          /\ diaries' # diaries =>
               (/\ pending # << >>
                /\ diaries' = Append(diaries, diaries'[Len(diaries')])
                /\ diaries'[Len(diaries')].content = pending[1].content
                /\ diaries'[Len(diaries')].diary_date = pending[1].diary_date)
          /\ (saving' /\ ~saving) =>
               (pending'[1].content = trim(content) /\ pending'[1].diary_date = diarySelectedDate)
          /\ (content # << >> /\ content' = << >>) => Len(diaries') = Len(diaries) + 1]_vars

\* an entry typed with blanks around it was saved
C30_TrimmedEntrySaved ==
  /\ pathname = "/diary/new"
  /\ \E k \in 1..Len(diaries) : diaries[k].content = << "a" >>
  /\ content = << >>
  /\ ~saving

====
